---- MODULE Spec2Model ----
(***************************************************************************)
(* Retail labour-demand pipeline (experiments/retail_labour_demand).       *)
(*                                                                         *)
(* The repository holds two near-duplicate implementations of the same     *)
(* pipeline: the scripts under retail_labour_demand/src/ ("src") and the   *)
(* scripts directly under retail_labour_demand/ ("top").  Every stage is   *)
(* modelled for both; the variable impl says which one is installed.       *)
(*                                                                         *)
(* Each stage is a batch script that loads its input table and writes its  *)
(* output table.  A stage is one action; the input it loads is chosen by   *)
(* the environment.  Every stage has its own specification (SpecFeatures,  *)
(* SpecSplit, SpecHours, SpecCalib, ...): the variables of the other       *)
(* stages stay at their idle value.  The last section models the pod       *)
(* manager of secure-runpod-chat (SpecPod).                                *)
(*                                                                         *)
(* pandas float columns are modelled as exact rationals <<num, den>> with  *)
(* NaN == <<0, 0>> and +-inf == <<+-1, 0>>.                                *)
(***************************************************************************)
EXTENDS Integers, Sequences, FiniteSets, TLC

VARIABLES
    impl,          \* "src" or "top": which implementation of the pipeline runs
    stage,         \* which script's state is live: "features", "split", "hours", "calib", ...
    sales_df,      \* 02: the loaded sales table, (Store, Date) -> Weekly_Sales
    store_sales,   \* 02: the feature table written by the script (store_sales / store_daily)
    features_df,   \* 03: the feature table loaded by the split, a set of (Store, Date) keys
    holdout,       \* 03: config.TEST_WEEKS
    split,         \* 03: outcome of the train/test split and of the cross-validation
    forecasts_df,  \* 04: the loaded rows (actual and predicted demand per key)
    conv,          \* 04: configuration of the conversion (mode, ratios, baseline hours)
    hours,         \* 04: outcome of the conversion and of the sensitivity sweep
    calib_in,      \* 05: the loaded hours table and the benchmark series
    calib,         \* 05: outcome of the calibration
    metrics,       \* 03/06: the forecast rows scored and the metrics computed from them
    orch,          \* run_all.py / run_pipeline.py: position and outcome of the stage loop
    pod_id,        \* RunPodManager.pod_id
    pod_info,      \* RunPodManager.pod_info
    pods           \* the pods of the RunPod account and the outcome of the last call

vars == <<impl, stage, sales_df, store_sales, features_df, holdout, split,
          forecasts_df, conv, hours, calib_in, calib, metrics, orch, pod_id, pod_info, pods>>

\* the state of the programs that are no part of the pipeline stages 02-05
rest == <<metrics, orch, pod_id, pod_info, pods>>

Impls == {"src", "top"}

Idle == <<>>

RestIdle ==
    metrics = Idle /\ orch = Idle /\ pod_id = Idle /\ pod_info = Idle /\ pods = Idle

(***************************************************************************)
(* Rational arithmetic standing for pandas/numpy float64 arithmetic.       *)
(***************************************************************************)
NaN == <<0, 0>>

PosInf == <<1, 0>>

NegInf == <<-1, 0>>

Abs(x) == IF x < 0 THEN -x ELSE x

Max(a, b) == IF a >= b THEN a ELSE b

Min(a, b) == IF a <= b THEN a ELSE b

RECURSIVE GCD(_, _)
GCD(a, b) == IF b = 0 THEN a ELSE GCD(b, a % b)

\* n / d in lowest terms, the sign carried by the numerator (d # 0)
Rat(n, d) ==
    LET g == GCD(Abs(n), Abs(d))
        s == IF d < 0 THEN -1 ELSE 1
    IN  <<(s * n) \div g, (s * d) \div g>>

FromInt(n) == <<n, 1>>

IsNaN(x) == x = NaN

IsFinite(x) == x[2] # 0

RatAdd(x, y) ==
    IF IsNaN(x) \/ IsNaN(y) THEN NaN
    ELSE IF ~IsFinite(x) THEN (IF ~IsFinite(y) /\ y # x THEN NaN ELSE x)
    ELSE IF ~IsFinite(y) THEN y
    ELSE Rat(x[1] * y[2] + y[1] * x[2], x[2] * y[2])

RatNeg(x) == <<-x[1], x[2]>>

RatSub(x, y) == RatAdd(x, RatNeg(y))

Sign(n) == IF n > 0 THEN 1 ELSE IF n < 0 THEN -1 ELSE 0

RatMul(x, y) ==
    IF IsNaN(x) \/ IsNaN(y) THEN NaN
    ELSE IF ~IsFinite(x) \/ ~IsFinite(y)
         THEN <<Sign(x[1]) * Sign(y[1]), 0>>      \* inf * 0 = NaN = <<0, 0>>
    ELSE Rat(x[1] * y[1], x[2] * y[2])

\* float division: x / 0 is +-inf, 0 / 0 is NaN, nothing is raised
RatDiv(x, y) ==
    IF IsNaN(x) \/ IsNaN(y) THEN NaN
    ELSE IF ~IsFinite(y) THEN (IF IsFinite(x) THEN FromInt(0) ELSE NaN)
    ELSE IF ~IsFinite(x) THEN <<x[1] * (IF y[1] < 0 THEN -1 ELSE 1), 0>>
    ELSE IF y[1] = 0 THEN <<Sign(x[1]), 0>>
    ELSE Rat(x[1] * y[2], x[2] * y[1])

\* x < y on finite values; every comparison with NaN is false
RatLess(x, y) ==
    /\ ~IsNaN(x) /\ ~IsNaN(y)
    /\ IF IsFinite(x) /\ IsFinite(y) THEN x[1] * y[2] < y[1] * x[2]
       ELSE IF ~IsFinite(x) /\ ~IsFinite(y) THEN x[1] < y[1]
       ELSE IF ~IsFinite(x) THEN x[1] < 0
       ELSE y[1] > 0

RatAbs(x) == <<Abs(x[1]), x[2]>>

RECURSIVE SumSeq(_)
SumSeq(s) == IF s = <<>> THEN FromInt(0) ELSE RatAdd(Head(s), SumSeq(Tail(s)))

\* Series.dropna()
DropNaN(s) == SelectSeq(s, LAMBDA x : ~IsNaN(x))

\* Series.mean(): NaN entries are skipped, the mean of nothing is NaN
MeanSeq(s) ==
    LET obs == DropNaN(s)
    IN  IF obs = <<>> THEN NaN ELSE RatDiv(SumSeq(obs), FromInt(Len(obs)))

(***************************************************************************)
(* Stage 02: feature engineering.                                          *)
(***************************************************************************)
MaxDate == 3

Stores == {1, 2}

Dates == 1 .. MaxDate

DemandVals == {1, 3}

\* config.LAG_PERIODS and config.ROLLING_WINDOWS, scaled to the short series
LAG_PERIODS == {1, 2}

ROLLING_WINDOWS == {2}

\* every (Store, Date) key in the order of sort_values(['Store', 'Date'])
RECURSIVE KeysFrom(_, _, _)
KeysFrom(s, d, last) ==
    IF s \notin Stores THEN <<>>
    ELSE IF d > last THEN KeysFrom(s + 1, 1, last)
    ELSE <<(<<s, d>>)>> \o KeysFrom(s, d + 1, last)

AllKeys == KeysFrom(1, 1, MaxDate)

AllKeySet == Stores \X Dates

\* store_sales.sort_values(['Store', 'Date']).reset_index(drop=True): the keys
\* of the table in row order
SortedKeys(df) == SelectSeq(AllKeys, LAMBDA k : k \in DOMAIN df)

\* the demand column in row order
SalesColumn(df) ==
    LET tab == SortedKeys(df)
    IN  [i \in 1 .. Len(tab) |-> FromInt(df[tab[i]])]

\* groupby('Store')[col].shift(n): the value n rows earlier (for n < 0, -n
\* rows later) in the same store's rows, NaN when the store has no such row
GroupShift(tab, col, i, n) ==
    IF i - n >= 1 /\ i - n <= Len(tab) /\ tab[i - n][1] = tab[i][1] THEN col[i - n] ELSE NaN

\* Series.rolling(window=w, min_periods=minp).mean() at row i of a series
RollingMean(col, i, w, minp) ==
    LET lo == Max(1, i - w + 1)
        obs == DropNaN([j \in 1 .. (i - lo + 1) |-> col[lo + j - 1]])
    IN  IF Len(obs) >= minp THEN RatDiv(SumSeq(obs), FromInt(Len(obs))) ELSE NaN

\* src/02: store_sales.groupby('Store')['Weekly_Sales'].shift(lag)
SalesLagSrc(df, i, lag) == GroupShift(SortedKeys(df), SalesColumn(df), i, lag)

\* src/02: groupby('Store')['Weekly_Sales'].shift(1) is a plain Series with the
\* index of the table; .rolling(window, min_periods=1).mean() then runs over
\* that whole Series, in row order, across the stores
SalesRollingMeanSrc(df, i, w) ==
    LET tab == SortedKeys(df)
        sales == SalesColumn(df)
        shifted == [j \in 1 .. Len(tab) |-> GroupShift(tab, sales, j, 1)]
    IN  RollingMean(shifted, i, w, 1)

\* src/02 before the missing-value step
RawFeaturesSrc(df) ==
    LET tab == SortedKeys(df)
    IN  [i \in 1 .. Len(tab) |->
            [Store |-> tab[i][1], Date |-> tab[i][2], Sales |-> FromInt(df[tab[i]]),
             Lag |-> [k \in LAG_PERIODS |-> SalesLagSrc(df, i, k)],
             RollingMean |-> [w \in ROLLING_WINDOWS |-> SalesRollingMeanSrc(df, i, w)]]]

\* groupby('Store')[col].fillna(method='ffill').fillna(0) at row i
RECURSIVE FFillZero(_, _, _)
FFillZero(tab, col, i) ==
    IF ~IsNaN(col[i]) THEN col[i]
    ELSE IF i > 1 /\ tab[i - 1][1] = tab[i][1] THEN FFillZero(tab, col, i - 1)
    ELSE FromInt(0)

\* src/02 "Handle Missing Values": when any column has a missing value, every
\* lag/rolling column is forward-filled per store and then filled with 0
FillMissingSrc(rows) ==
    LET tab == [i \in 1 .. Len(rows) |-> <<rows[i].Store, rows[i].Date>>]
        missing == \E i \in 1 .. Len(rows) :
                      \/ \E k \in LAG_PERIODS : IsNaN(rows[i].Lag[k])
                      \/ \E w \in ROLLING_WINDOWS : IsNaN(rows[i].RollingMean[w])
    IN  IF ~missing THEN rows
        ELSE [i \in 1 .. Len(rows) |->
                [rows[i] EXCEPT
                   !.Lag = [k \in LAG_PERIODS |->
                              FFillZero(tab, [j \in 1 .. Len(rows) |-> rows[j].Lag[k]], i)],
                   !.RollingMean = [w \in ROLLING_WINDOWS |->
                              FFillZero(tab, [j \in 1 .. Len(rows) |-> rows[j].RollingMean[w]], i)]]]

FeaturesSrc(df) == FillMissingSrc(RawFeaturesSrc(df))

\* the rows of one store, in date order (one group of groupby('Store'))
GroupKeys(df, s) == SelectSeq(SortedKeys(df), LAMBDA k : k[1] = s)

GroupSales(df, s) ==
    LET ks == GroupKeys(df, s)
    IN  [p \in 1 .. Len(ks) |-> FromInt(df[ks[p]])]

\* top/02 add_lag_features: group['total_sales'].shift(lag) inside one group
SalesLagTop(df, s, p, lag) ==
    IF p - lag >= 1 THEN GroupSales(df, s)[p - lag] ELSE NaN

\* the rolling mean without the shift by one row: the window ends at the row
SalesRollMeanUnshifted(df, s, p, w) == RollingMean(GroupSales(df, s), p, w, 1)

\* top/02 add_rolling_features: group['total_sales'].rolling(window,
\* min_periods=1).mean().shift(1) inside one group
SalesRollMeanTop(df, s, p, w) ==
    IF p - 1 >= 1 THEN RollingMean(GroupSales(df, s), p - 1, w, 1) ELSE NaN

\* position of row i of the sorted table inside its store's group
PosInGroup(tab, i) == Cardinality({j \in 1 .. i : tab[j][1] = tab[i][1]})

\* top/02: groupby('Store', group_keys=False).apply(...) concatenates the groups
\* in store order; lag/rolling NaN are kept
FeaturesTop(df) ==
    LET tab == SortedKeys(df)
    IN  [i \in 1 .. Len(tab) |->
            LET s == tab[i][1]
                p == PosInGroup(tab, i)
            IN  [Store |-> s, Date |-> tab[i][2], Sales |-> FromInt(df[tab[i]]),
                 Lag |-> [k \in LAG_PERIODS |-> SalesLagTop(df, s, p, k)],
                 RollingMean |-> [w \in ROLLING_WINDOWS |-> SalesRollMeanTop(df, s, p, w)]]]

\* the tables the ingestion can hand over next: one record added, changed or
\* removed ((Store, Date) stays a unique key: the scripts aggregate by it)
EditedTables(df) ==
    {[k \in DOMAIN df \cup {key} |-> IF k = key THEN v ELSE df[k]] :
        key \in AllKeySet, v \in DemandVals}
    \cup {[k \in DOMAIN df \ {key} |-> df[k]] : key \in DOMAIN df}

InitFeatures ==
    /\ impl \in Impls
    /\ stage = "features"
    /\ sales_df = <<>>
    /\ store_sales = <<>>
    /\ features_df = Idle /\ holdout = Idle /\ split = Idle
    /\ forecasts_df = Idle /\ conv = Idle /\ hours = Idle
    /\ calib_in = Idle /\ calib = Idle
    /\ RestIdle

\* one run of src/02_feature_engineering.py on the table it loads
RunFeatureEngineeringSrc ==
    /\ stage = "features" /\ impl = "src"
    /\ \E df \in EditedTables(sales_df) :
          /\ sales_df' = df
          /\ store_sales' = FeaturesSrc(df)
    /\ UNCHANGED <<impl, stage, features_df, holdout, split, forecasts_df, conv,
                   hours, calib_in, calib, rest>>

\* one run of 02_feature_engineering.py on the table it loads
RunFeatureEngineeringTop ==
    /\ stage = "features" /\ impl = "top"
    /\ \E df \in EditedTables(sales_df) :
          /\ sales_df' = df
          /\ store_sales' = FeaturesTop(df)
    /\ UNCHANGED <<impl, stage, features_df, holdout, split, forecasts_df, conv,
                   hours, calib_in, calib, rest>>

NextFeatures == RunFeatureEngineeringSrc \/ RunFeatureEngineeringTop

SpecFeatures == InitFeatures /\ [][NextFeatures]_vars

(***************************************************************************)
(* Properties of stage 02.                                                 *)
(***************************************************************************)
\* the two loaded tables hold the same records at every date before t
AgreeBefore(a, b, t) ==
    \A k \in AllKeySet :
        k[2] < t => /\ (k \in DOMAIN a <=> k \in DOMAIN b)
                    /\ (k \in DOMAIN a => a[k] = b[k])

\* the two loaded tables hold the same records of store e
AgreeOnStore(a, b, e) ==
    \A k \in AllKeySet :
        k[1] = e => /\ (k \in DOMAIN a <=> k \in DOMAIN b)
                    /\ (k \in DOMAIN a => a[k] = b[k])

RowKeys(rows) == [i \in 1 .. Len(rows) |-> <<rows[i].Store, rows[i].Date>>]

\* C1: no temporal leakage. Two runs whose loaded tables agree on every record
\* with date < t give the row (e, t) the same lag_k and rolling_mean_w, whatever
\* the records with date >= t are.
C1_NoTemporalLeakage ==
    [][\A i \in 1 .. Len(store_sales), j \in 1 .. Len(store_sales') :
          (/\ store_sales[i].Store = store_sales'[j].Store
           /\ store_sales[i].Date = store_sales'[j].Date
           /\ AgreeBefore(sales_df, sales_df', store_sales[i].Date))
          => /\ store_sales[i].Lag = store_sales'[j].Lag
             /\ store_sales[i].RollingMean = store_sales'[j].RollingMean]_vars

\* C2: entity isolation. Two runs whose loaded tables agree on every record of
\* store e give every row of e the same lag and rolling features, whatever the
\* records of the other stores are.
C2_EntityIsolation ==
    [][\A i \in 1 .. Len(store_sales), j \in 1 .. Len(store_sales') :
          (/\ store_sales[i].Store = store_sales'[j].Store
           /\ store_sales[i].Date = store_sales'[j].Date
           /\ AgreeOnStore(sales_df, sales_df', store_sales[i].Store))
          => /\ store_sales[i].Lag = store_sales'[j].Lag
             /\ store_sales[i].RollingMean = store_sales'[j].RollingMean]_vars

\* C4: lag definition. For every row (e, t) after the first k records of e and
\* every configured k, lag_k is the demand of e at period t - k: the record of
\* that period exists and lag_k is its demand, also when e has missing periods.
C4_LagIsDemandAtPeriod ==
    \A i \in 1 .. Len(store_sales) : \A k \in LAG_PERIODS :
        LET e == store_sales[i].Store
            t == store_sales[i].Date
        IN  PosInGroup(RowKeys(store_sales), i) > k
            => /\ <<e, t - k>> \in DOMAIN sales_df
               /\ store_sales[i].Lag[k] = FromInt(sales_df[<<e, t - k>>])

C15_NullPropagation ==
    \A i \in 1 .. Len(store_sales) :
        LET p == PosInGroup(RowKeys(store_sales), i)
        IN  /\ \A k \in LAG_PERIODS : p <= k => IsNaN(store_sales[i].Lag[k])
            /\ \A w \in ROLLING_WINDOWS : p = 1 => IsNaN(store_sales[i].RollingMean[w])


(***************************************************************************)
(* Stage 02, holiday flags: the lead and lag flags built from the holiday  *)
(* flag of every weekly record (one date step stands for 7 days).          *)
(***************************************************************************)
\* the store-level tables with their IsHoliday column
HolidayTables == UNION {[K -> BOOLEAN] : K \in SUBSET AllKeySet}

BoolInt(b) == IF b THEN 1 ELSE 0

\* group['is_holiday'].shift(n, fill_value=0) at position p of a store's rows
\* in date order: the value n rows earlier (n < 0: -n rows later), else 0
HolidayShiftTop(tab, s, p, n) ==
    LET ks == GroupKeys(tab, s)
    IN  IF p - n >= 1 /\ p - n <= Len(ks) THEN BoolInt(tab[ks[p - n]]) ELSE 0

\* top/02 add_holiday_windows applied to every store
HolidayFlagsTop(tab) ==
    LET ks == SortedKeys(tab)
    IN  [i \in 1 .. Len(ks) |->
            LET s == ks[i][1]
                p == PosInGroup(ks, i)
            IN  [Store |-> s, Date |-> ks[i][2], is_holiday |-> BoolInt(tab[ks[i]]),
                 is_pre_holiday |-> HolidayShiftTop(tab, s, p, -1),
                 is_post_holiday |-> HolidayShiftTop(tab, s, p, 1)]]

\* src/02 "Holiday Interaction Features": Is_PreHoliday is set on the store's
\* record dated 7 days before each of its holiday records; no other holiday
\* window column is created
HolidayFlagsSrc(tab) ==
    LET ks == SortedKeys(tab)
    IN  [i \in 1 .. Len(ks) |->
            [Store |-> ks[i][1], Date |-> ks[i][2], is_holiday |-> BoolInt(tab[ks[i]]),
             is_pre_holiday |->
                 BoolInt(\E h \in DOMAIN tab :
                            /\ h[1] = ks[i][1] /\ tab[h]
                            /\ ks[i][2] = h[2] - 1)]]

InitHoliday ==
    /\ impl \in Impls
    /\ stage = "holiday"
    /\ sales_df \in HolidayTables
    /\ store_sales = [pc |-> "loaded", rows |-> <<>>]
    /\ features_df = Idle /\ holdout = Idle /\ split = Idle
    /\ forecasts_df = Idle /\ conv = Idle /\ hours = Idle
    /\ calib_in = Idle /\ calib = Idle
    /\ RestIdle

\* src/02_feature_engineering.py, lines 273-291
HolidayWindowsSrc ==
    /\ stage = "holiday" /\ impl = "src" /\ store_sales.pc = "loaded"
    /\ store_sales' = [pc |-> "built", rows |-> HolidayFlagsSrc(sales_df)]
    /\ UNCHANGED <<impl, stage, sales_df, features_df, holdout, split, forecasts_df,
                   conv, hours, calib_in, calib, rest>>

\* 02_feature_engineering.py, lines 124-134
HolidayWindowsTop ==
    /\ stage = "holiday" /\ impl = "top" /\ store_sales.pc = "loaded"
    /\ store_sales' = [pc |-> "built", rows |-> HolidayFlagsTop(sales_df)]
    /\ UNCHANGED <<impl, stage, sales_df, features_df, holdout, split, forecasts_df,
                   conv, hours, calib_in, calib, rest>>

NextHoliday == HolidayWindowsSrc \/ HolidayWindowsTop

SpecHoliday == InitHoliday /\ [][NextHoliday]_vars

\* is_holiday of the store at a date, 0 when the store has no record there
HolidayAt(s, d) == IF <<s, d>> \in DOMAIN sales_df THEN BoolInt(sales_df[<<s, d>>]) ELSE 0

\* C28: holiday lead/lag flags. Every feature row carries both flags;
\* is_pre_holiday is the holiday flag of the same store 7 days later and
\* is_post_holiday the holiday flag of the same store 7 days earlier, 0 when
\* the store has no record at that date, also when the store misses weeks.
C28_HolidayLeadLag ==
    store_sales.pc = "built"
    => \A i \in 1 .. Len(store_sales.rows) :
          LET r == store_sales.rows[i]
          IN  /\ {"is_pre_holiday", "is_post_holiday"} \subseteq DOMAIN r
              /\ r.is_pre_holiday = HolidayAt(r.Store, r.Date + 1)
              /\ r.is_post_holiday = HolidayAt(r.Store, r.Date - 1)


(***************************************************************************)
(* Stage 02, aggregation: the department-level sales records the scripts   *)
(* load, several of which can carry the same (Store, Date) key.            *)
(***************************************************************************)
MaxRawRows == 3

RawDates == {1, 2}

\* sales_df as loaded: a list of records
RawTables ==
    UNION {[1 .. n -> [Store : Stores, Date : RawDates, Weekly_Sales : DemandVals]] :
             n \in 0 .. MaxRawRows}

RawKeys(raw) == {<<raw[i].Store, raw[i].Date>> : i \in DOMAIN raw}

RECURSIVE SumWhere(_, _, _)
SumWhere(raw, key, n) ==
    IF n = 0 THEN 0
    ELSE SumWhere(raw, key, n - 1)
         + (IF <<raw[n].Store, raw[n].Date>> = key THEN raw[n].Weekly_Sales ELSE 0)

\* sales_df.groupby(['Store', 'Date']).agg({'Weekly_Sales': 'sum', ...}): one
\* row per key, the records of a key added up
GroupBySum(raw) == [key \in RawKeys(raw) |-> SumWhere(raw, key, Len(raw))]

\* top/02: 'Dept': 'count', the number of records of the key
GroupByCount(raw) ==
    [key \in RawKeys(raw) |->
        Cardinality({i \in DOMAIN raw : <<raw[i].Store, raw[i].Date>> = key})]

InitAggregate ==
    /\ impl \in Impls
    /\ stage = "aggregate"
    /\ sales_df \in RawTables
    /\ store_sales = [pc |-> "loaded", error |-> "", rows |-> <<>>, units |-> <<>>]
    /\ features_df = Idle /\ holdout = Idle /\ split = Idle
    /\ forecasts_df = Idle /\ conv = Idle /\ hours = Idle
    /\ calib_in = Idle /\ calib = Idle
    /\ RestIdle

\* src/02: store_sales = sales_df.groupby(['Store', 'Date']).agg(...), then the
\* features of the aggregated table
AggregateSrc ==
    /\ stage = "aggregate" /\ impl = "src" /\ store_sales.pc = "loaded"
    /\ store_sales' = [pc |-> "built", error |-> "",
                       rows |-> FeaturesSrc(GroupBySum(sales_df)),
                       units |-> <<>>]
    /\ UNCHANGED <<impl, stage, sales_df, features_df, holdout, split, forecasts_df,
                   conv, hours, calib_in, calib, rest>>

\* top/02: store_daily = sales_df.groupby(['Store', 'Date']).agg(...), then the
\* features of the aggregated table
AggregateTop ==
    /\ stage = "aggregate" /\ impl = "top" /\ store_sales.pc = "loaded"
    /\ store_sales' = [pc |-> "built", error |-> "",
                       rows |-> FeaturesTop(GroupBySum(sales_df)),
                       units |-> GroupByCount(sales_df)]
    /\ UNCHANGED <<impl, stage, sales_df, features_df, holdout, split, forecasts_df,
                   conv, hours, calib_in, calib, rest>>

NextAggregate == AggregateSrc \/ AggregateTop

SpecAggregate == InitAggregate /\ [][NextAggregate]_vars

\* the loaded table holds some (Store, Date) key more than once
HasDuplicateKey ==
    \E i, j \in DOMAIN sales_df :
        i # j /\ sales_df[i].Store = sales_df[j].Store /\ sales_df[i].Date = sales_df[j].Date

\* C13: duplicate keys are rejected. When a (Store, Date) key occurs more than
\* once in the loaded table, the build fails with ValidationError instead of
\* merging or keeping the duplicated records.
C13_DuplicateKeysRejected ==
    (store_sales.pc # "loaded" /\ HasDuplicateKey)
    => /\ store_sales.pc = "error"
       /\ store_sales.error = "ValidationError"
       /\ store_sales.rows = <<>>


(***************************************************************************)
(* Stage 02 under any configured lag and window: the loops over            *)
(* config.LAG_PERIODS / config.ROLLING_WINDOWS (LAG_DAYS in the top-level  *)
(* script) take the configured integers as they are.                       *)
(***************************************************************************)
MaxLagCfg == 2

CfgOffsets == (-MaxLagCfg) .. MaxLagCfg

CfgDates == {1, 2}

\* Series.shift(n) at position p of one group's column
ShiftAt(col, p, n) == IF p - n >= 1 /\ p - n <= Len(col) THEN col[p - n] ELSE NaN

\* src/02: the Sales_Lag_{lag} column before and after the missing-value step
LagColumnSrc(df, lag) ==
    LET tab == SortedKeys(df)
        raw == [i \in 1 .. Len(tab) |-> GroupShift(tab, SalesColumn(df), i, lag)]
    IN  IF \E i \in 1 .. Len(tab) : IsNaN(raw[i])
        THEN [i \in 1 .. Len(tab) |-> FFillZero(tab, raw, i)]
        ELSE raw

\* top/02: the sales_lag_{lag} column, group by group
LagColumnTop(df, lag) ==
    LET tab == SortedKeys(df)
    IN  [i \in 1 .. Len(tab) |->
            ShiftAt(GroupSales(df, tab[i][1]), PosInGroup(tab, i), lag)]

\* pandas rolling(window=w, min_periods=1) raises ValueError for w < 1
\* ("min_periods 1 must be <= window 0", "window must be an integer 0 or
\* greater"); the lag loop has run before. Nothing checks the lag.
BuildWithConfig(i, df, lag, window) ==
    IF window < 1
    THEN [pc |-> "error", error |-> "ValueError", lag |-> <<>>]
    ELSE [pc |-> "built", error |-> "",
          lag |-> IF i = "src" THEN LagColumnSrc(df, lag) ELSE LagColumnTop(df, lag)]

InitLagConfig ==
    /\ impl \in Impls
    /\ stage = "lagconfig"
    /\ sales_df \in UNION {[K -> DemandVals] : K \in SUBSET (Stores \X CfgDates) \ {{}}}
    /\ conv \in [lag : CfgOffsets, window : CfgOffsets]
    /\ store_sales = [pc |-> "loaded", error |-> "", lag |-> <<>>]
    /\ features_df = Idle /\ holdout = Idle /\ split = Idle
    /\ forecasts_df = Idle /\ hours = Idle
    /\ calib_in = Idle /\ calib = Idle
    /\ RestIdle

\* src/02 "Lag Features" and "Rolling Statistics" with the configured values
BuildWithConfigSrc ==
    /\ stage = "lagconfig" /\ impl = "src" /\ store_sales.pc = "loaded"
    /\ store_sales' = BuildWithConfig("src", sales_df, conv.lag, conv.window)
    /\ UNCHANGED <<impl, stage, sales_df, features_df, holdout, split, forecasts_df,
                   conv, hours, calib_in, calib, rest>>

\* top/02 add_lag_features and add_rolling_features with the configured values
BuildWithConfigTop ==
    /\ stage = "lagconfig" /\ impl = "top" /\ store_sales.pc = "loaded"
    /\ store_sales' = BuildWithConfig("top", sales_df, conv.lag, conv.window)
    /\ UNCHANGED <<impl, stage, sales_df, features_df, holdout, split, forecasts_df,
                   conv, hours, calib_in, calib, rest>>

NextLagConfig == BuildWithConfigSrc \/ BuildWithConfigTop

SpecLagConfig == InitLagConfig /\ [][NextLagConfig]_vars

\* C14: non-positive lags and windows are rejected. When the configured lag
\* or window is <= 0 the build fails with ConfigError and builds no lag
\* feature (so none that equals the current or a future demand).
C14_NonPositiveLagRejected ==
    (store_sales.pc # "loaded" /\ (conv.lag <= 0 \/ conv.window <= 0))
    => /\ store_sales.pc = "error"
       /\ store_sales.error = "ConfigError"
       /\ store_sales.lag = <<>>


(***************************************************************************)
(* Stage 03: time-based train/test split and cross-validation.             *)
(***************************************************************************)
MaxSplitDate == 4

MaxHoldout == 5

N_SPLITS == 5

SplitDates == 1 .. MaxSplitDate

SplitKeys == KeysFrom(1, 1, MaxSplitDate)

\* sorted(df['Date'].unique())
RECURSIVE SortedSeq(_)
SortedSeq(S) ==
    IF S = {} THEN <<>>
    ELSE LET m == CHOOSE x \in S : \A y \in S : x <= y
         IN  <<m>> \o SortedSeq(S \ {m})

UniqueDates(df) == SortedSeq({k[2] : k \in df})

\* Python list indexing lst[idx] with a 0-based, possibly negative index:
\* the 1-based position, or 0 where Python raises IndexError
PyIndex(n, idx) ==
    IF 0 <= idx /\ idx < n THEN idx + 1
    ELSE IF -n <= idx /\ idx < 0 THEN n + idx + 1
    ELSE 0

\* the cutoff index counted from the first date
CutoffIndexFromStart(n, h) == h

\* src/03: test_cutoff_idx = len(unique_dates) - config.TEST_WEEKS
CutoffIndexSrc(n, h) == n - h

\* src/03: train_mask = features_df['Date'] < test_cutoff_date
TrainMaskLeSrc(d, cutoff) == d <= cutoff

TrainMaskSrc(d, cutoff) == d < cutoff

\* src/03: test_mask = features_df['Date'] >= test_cutoff_date
TestMaskSrc(d, cutoff) == d >= cutoff

\* src/03 "Time-Based Train/Test Split": unique_dates[0] and
\* unique_dates[test_cutoff_idx] raise IndexError out of range; nothing else
\* is checked
SplitResultSrc(df, h) ==
    LET dates == UniqueDates(df)
        n == Len(dates)
        pos == PyIndex(n, CutoffIndexSrc(n, h))
    IN  IF n = 0 \/ pos = 0
        THEN [pc |-> "error", error |-> "IndexError", train |-> {}, test |-> {},
              cutoff |-> 0, folds |-> <<>>]
        ELSE [pc |-> "split", error |-> "",
              train |-> {k \in df : TrainMaskSrc(k[2], dates[pos])},
              test |-> {k \in df : TestMaskSrc(k[2], dates[pos])},
              cutoff |-> dates[pos], folds |-> <<>>]

\* the slice lst[:h], the first h elements of the list
PyFirstSlice(lst, h) == {lst[i] : i \in 1 .. Min(h, Len(lst))}

\* Python slices lst[-h:] and lst[:-h] for h >= 0 (lst[-0:] is the whole list,
\* lst[:-0] is empty), as sets of the list's elements
PyLastSlice(lst, h) ==
    LET n == Len(lst)
    IN  IF h = 0 \/ h >= n THEN {lst[i] : i \in 1 .. n}
        ELSE {lst[i] : i \in (n - h + 1) .. n}

PyInitSlice(lst, h) ==
    LET n == Len(lst)
    IN  IF h = 0 \/ h >= n THEN {}
        ELSE {lst[i] : i \in 1 .. (n - h)}

\* top/03 "TIME-BASED TRAIN/TEST SPLIT": membership in test_dates / train_dates;
\* the report line reads train_dates[0] and test_dates[0], which raise
\* IndexError on an empty list. total_units is a count, never missing, so
\* dropna(subset=[target_col]) drops nothing. The first test date stands for
\* the cutoff.
SplitResultTop(df, h) ==
    LET dates == UniqueDates(df)
        test_dates == PyLastSlice(dates, h)
        train_dates == PyInitSlice(dates, h)
    IN  IF train_dates = {} \/ test_dates = {}
        THEN [pc |-> "error", error |-> "IndexError", train |-> {}, test |-> {},
              cutoff |-> 0, folds |-> <<>>]
        ELSE [pc |-> "split", error |-> "",
              train |-> {k \in df : k[2] \in train_dates},
              test |-> {k \in df : k[2] \in test_dates},
              cutoff |-> CHOOSE d \in test_dates : \A e \in test_dates : d <= e,
              folds |-> <<>>]

\* top/03: X_train keeps the row order of df.sort_values(['Store', 'Date'])
TrainRows(train) == SelectSeq(SplitKeys, LAMBDA k : k \in train)

\* sklearn TimeSeriesSplit(n_splits).split(X): test_size = n_samples //
\* (n_splits + 1); fold f (1-based) validates on the test_size rows from row
\* n_samples - (n_splits - f + 1) * test_size (0-based) and trains on every
\* row before them. The folds are cut by row position.
TimeSeriesSplit(rows, n_splits) ==
    LET n == Len(rows)
        test_size == n \div (n_splits + 1)
    IN  [f \in 1 .. n_splits |->
            LET start == n - (n_splits - f + 1) * test_size
            IN  [train |-> {rows[i] : i \in 1 .. start},
                 val |-> {rows[i] : i \in (start + 1) .. (start + test_size)}]]

InitSplit ==
    /\ impl \in Impls
    /\ stage = "split"
    /\ features_df \in SUBSET (Stores \X SplitDates)
    /\ holdout \in 0 .. MaxHoldout
    /\ split = [pc |-> "loaded", error |-> "", train |-> {}, test |-> {},
                cutoff |-> 0, folds |-> <<>>]
    /\ sales_df = Idle /\ store_sales = Idle
    /\ forecasts_df = Idle /\ conv = Idle /\ hours = Idle
    /\ calib_in = Idle /\ calib = Idle
    /\ RestIdle

\* src/03_model_training.py, lines 62-84
TrainTestSplitSrc ==
    /\ stage = "split" /\ impl = "src" /\ split.pc = "loaded"
    /\ split' = SplitResultSrc(features_df, holdout)
    /\ UNCHANGED <<impl, stage, sales_df, store_sales, features_df, holdout,
                   forecasts_df, conv, hours, calib_in, calib, rest>>

\* 03_forecasting.py, lines 70-91
TrainTestSplitTop ==
    /\ stage = "split" /\ impl = "top" /\ split.pc = "loaded"
    /\ split' = SplitResultTop(features_df, holdout)
    /\ UNCHANGED <<impl, stage, sales_df, store_sales, features_df, holdout,
                   forecasts_df, conv, hours, calib_in, calib, rest>>

\* 03_forecasting.py, lines 199-219: GridSearchCV(cv=TimeSeriesSplit(N_SPLITS))
\* .fit(X_train, y_train); sklearn raises ValueError when there are fewer than
\* N_SPLITS + 1 training rows. src/03 imports TimeSeriesSplit and never uses it.
GridSearchTop ==
    /\ stage = "split" /\ impl = "top" /\ split.pc = "split"
    /\ LET rows == TrainRows(split.train)
       IN  IF Len(rows) < N_SPLITS + 1
           THEN split' = [split EXCEPT !.pc = "error", !.error = "ValueError"]
           ELSE split' = [split EXCEPT !.pc = "cv",
                                       !.folds = TimeSeriesSplit(rows, N_SPLITS)]
    /\ UNCHANGED <<impl, stage, sales_df, store_sales, features_df, holdout,
                   forecasts_df, conv, hours, calib_in, calib, rest>>

NextSplit == TrainTestSplitSrc \/ TrainTestSplitTop \/ GridSearchTop

SpecSplit == InitSplit /\ [][NextSplit]_vars

(***************************************************************************)
(* Properties of stage 03.                                                 *)
(***************************************************************************)
NumDistinctDates == Cardinality({k[2] : k \in features_df})

ValidHoldout == 0 < holdout /\ holdout < NumDistinctDates

\* C3: split exhaustiveness. For a valid holdout (0 < holdout < number of
\* distinct dates) the split returns, train and test together are all the rows,
\* they share no row, every train date is before the cutoff and every test
\* date is at or after it.
C3_SplitExhaustive ==
    (split.pc # "loaded" /\ ValidHoldout)
    => /\ split.error # "IndexError"
       /\ split.train \cup split.test = features_df
       /\ split.train \cap split.test = {}
       /\ \A k \in split.train : k[2] < split.cutoff
       /\ \A k \in split.test : split.cutoff <= k[2]

\* C3 witness: a split of two stores, one of them with a missing period, with
\* rows on both sides and rows dated exactly at the cutoff
C3_Witness ==
    /\ split.pc = "split" /\ ValidHoldout /\ holdout = 2
    /\ features_df = {<<1, 1>>, <<1, 2>>, <<1, 4>>, <<2, 2>>, <<2, 3>>}
    /\ split.train = {<<1, 1>>, <<1, 2>>, <<2, 2>>}
    /\ split.test = {<<1, 4>>, <<2, 3>>}
    /\ split.cutoff = 3

\* C10: rolling-origin cross-validation. In every fold of the hyperparameter
\* search every validation row is dated strictly later than every training row
\* of the fold.
C10_FoldsTimeOrdered ==
    split.pc = "cv"
    => \A f \in 1 .. Len(split.folds) :
          \A v \in split.folds[f].val : \A t \in split.folds[f].train : t[2] < v[2]

\* C11: an oversized holdout is rejected. Whenever holdout is at least the
\* number of distinct dates of the loaded table, the split fails with
\* InsufficientDataError and returns no train/test partition.
C11_OversizedHoldoutRejected ==
    (split.pc # "loaded" /\ holdout >= NumDistinctDates)
    => /\ split.pc = "error"
       /\ split.error = "InsufficientDataError"
       /\ split.train = {} /\ split.test = {}

\* the dates among the h latest distinct dates of the table
LatestDates(df, h) ==
    {d \in {k[2] : k \in df} : Cardinality({e \in {k[2] : k \in df} : e > d}) < h}

\* C22: cutoff by distinct dates. For a valid holdout the test partition is
\* exactly the rows dated at one of the holdout latest distinct dates of the
\* whole table and train is every other row, so two rows with the same date are
\* in the same partition whichever store they belong to.
C22_CutoffByDistinctDates ==
    (split.pc # "loaded" /\ ValidHoldout)
    => /\ split.test = {k \in features_df : k[2] \in LatestDates(features_df, holdout)}
       /\ split.train = {k \in features_df : k[2] \notin LatestDates(features_df, holdout)}
       /\ \A k \in features_df : \A l \in features_df :
             k[2] = l[2] => (k \in split.test <=> l \in split.test)

\* C22 witness: store 1 has only two rows, periods 2 and 3 are missing; by
\* the dates of the table the two latest periods are 3 and 4, so row (1, 1)
\* is a train row and the rows (1, 4), (2, 4) are on the same side
C22_Witness ==
    /\ split.pc = "split" /\ holdout = 2
    /\ features_df = {<<1, 1>>, <<1, 4>>, <<2, 1>>, <<2, 2>>, <<2, 3>>, <<2, 4>>}
    /\ split.test = {<<1, 4>>, <<2, 3>>, <<2, 4>>}
    /\ split.train = {<<1, 1>>, <<2, 1>>, <<2, 2>>}

\* what the other implementation returns for the loaded table and holdout
OtherSplit ==
    IF impl = "src" THEN SplitResultTop(features_df, holdout)
    ELSE SplitResultSrc(features_df, holdout)

\* C29: the two split implementations agree. For a valid holdout the train
\* rows and the test rows returned by the script that ran are the train rows
\* and the test rows the other script returns for the same table and holdout.
C29_SplitsAgree ==
    (split.pc # "loaded" /\ ValidHoldout)
    => /\ split.train = OtherSplit.train
       /\ split.test = OtherSplit.test

\* C29 witness: the membership-based split ran on a table with a missing
\* period and the cutoff-based split returns the same non-empty partitions
C29_Witness ==
    /\ split.pc = "split" /\ impl = "top" /\ holdout = 1
    /\ features_df = {<<1, 1>>, <<1, 3>>, <<2, 2>>, <<2, 3>>}
    /\ split.test = {<<1, 3>>, <<2, 3>>}
    /\ SplitResultSrc(features_df, holdout).test = {<<1, 3>>, <<2, 3>>}
    /\ SplitResultSrc(features_df, holdout).train = {<<1, 1>>, <<2, 2>>}


(***************************************************************************)
(* Stage 03, baseline forecasts: naive, seasonal naive and moving average, *)
(* computed from the train rows for every test row.                        *)
(***************************************************************************)
\* pd.Timedelta(weeks=52) of src/03 and the 7 weekdays of top/03, scaled to
\* the short series
SeasonalOffset == 2

\* .tail(4) of both scripts, scaled to the short series
MovingAverageN == 2

\* the Target values a store can have
TargetVals(s) == IF s = 1 THEN {1, 3} ELSE {2}

\* the feature tables a run can load: (Store, Date) -> Target
TargetTables ==
    {df \in UNION {[K -> {1, 2, 3}] : K \in SUBSET (Stores \X SplitDates)} :
        \A k \in DOMAIN df : df[k] \in TargetVals(k[1])}

\* the Target column of a set of rows, in table order
TargetsOf(df, rows) ==
    LET ks == SelectSeq(SplitKeys, LAMBDA k : k \in rows)
    IN  [i \in 1 .. Len(ks) |-> FromInt(df[ks[i]])]

\* y_train.mean()
GlobalTrainMean(df, train) == MeanSeq(TargetsOf(df, train))

\* the train rows of one store, in date order
StoreTrainKeys(train, e) == SelectSeq(SplitKeys, LAMBDA k : k \in train /\ k[1] = e)

LastOf(s) == s[Len(s)]

\* src/03 "Naive Forecast": the store's train row dated train_df['Date'].max(),
\* else y_train.mean()
NaivePredSrc(df, train, key) ==
    LET last == CHOOSE d \in {k[2] : k \in train} : \A k \in train : k[2] <= d
    IN  IF train # {} /\ <<key[1], last>> \in train
        THEN FromInt(df[<<key[1], last>>])
        ELSE GlobalTrainMean(df, train)

\* top/03 baseline_naive: train_df.groupby('Store')[target_col].last(), merged
\* on Store, then fillna(y_train.mean())
NaivePredTop(df, train, key) ==
    LET ks == StoreTrainKeys(train, key[1])
    IN  IF ks # <<>> THEN FromInt(df[LastOf(ks)]) ELSE GlobalTrainMean(df, train)

\* src/03 "Seasonal Naive": the store's train row dated row['Date'] - 52 weeks,
\* else y_train.mean()
SeasonalPredSrc(df, train, key) ==
    IF <<key[1], key[2] - SeasonalOffset>> \in train
    THEN FromInt(df[<<key[1], key[2] - SeasonalOffset>>])
    ELSE GlobalTrainMean(df, train)

\* top/03 seasonal_naive_predict: the store's last train row with the same
\* dayofweek, else the mean of the store's own train rows
SeasonalPredTop(df, train, key) ==
    LET same == SelectSeq(StoreTrainKeys(train, key[1]),
                          LAMBDA k : k[2] % SeasonalOffset = key[2] % SeasonalOffset)
    IN  IF same # <<>> THEN FromInt(df[LastOf(same)])
        ELSE MeanSeq(TargetsOf(df, {k \in train : k[1] = key[1]}))

\* the mean of the whole column
TailMeanAll(col, n) == MeanSeq(col)

\* the mean of the last n values of the column
TailMean(col, n) ==
    LET lo == Max(1, Len(col) - n + 1)
    IN  MeanSeq([j \in 1 .. (Len(col) - lo + 1) |-> col[lo + j - 1]])

\* src/03 "Moving Average": the store's train rows .sort_values('Date').tail(4)
\* .mean(), else y_train.mean(); top/03 ma_preds: groupby('Store') tail(4).mean()
\* merged on Store, then fillna(y_train.mean())
MovingAveragePred(df, train, key) ==
    LET ks == StoreTrainKeys(train, key[1])
    IN  IF ks # <<>> THEN TailMean([i \in 1 .. Len(ks) |-> FromInt(df[ks[i]])], MovingAverageN)
        ELSE GlobalTrainMean(df, train)

BaselinesOf(i, df, sp) ==
    [pc |-> "predicted", train |-> sp.train, test |-> sp.test,
     naive |-> [k \in sp.test |-> IF i = "src" THEN NaivePredSrc(df, sp.train, k)
                                  ELSE NaivePredTop(df, sp.train, k)],
     seasonal |-> [k \in sp.test |-> IF i = "src" THEN SeasonalPredSrc(df, sp.train, k)
                                     ELSE SeasonalPredTop(df, sp.train, k)],
     ma |-> [k \in sp.test |-> MovingAveragePred(df, sp.train, k)]]

\* a loaded table and a holdout with which the split of the script returns
InitBaselines ==
    /\ impl \in Impls
    /\ stage = "baselines"
    /\ features_df \in TargetTables
    /\ holdout \in 1 .. MaxHoldout
    /\ holdout < Cardinality({k[2] : k \in DOMAIN features_df})
    /\ forecasts_df = [pc |-> "loaded", train |-> {}, test |-> {}, naive |-> <<>>,
                       seasonal |-> <<>>, ma |-> <<>>]
    /\ sales_df = Idle /\ store_sales = Idle /\ split = Idle
    /\ conv = Idle /\ hours = Idle /\ calib_in = Idle /\ calib = Idle
    /\ RestIdle

\* src/03_model_training.py "Baseline Models"
BaselinesSrc ==
    /\ stage = "baselines" /\ impl = "src" /\ forecasts_df.pc = "loaded"
    /\ forecasts_df' = BaselinesOf("src", features_df,
                                   SplitResultSrc(DOMAIN features_df, holdout))
    /\ UNCHANGED <<impl, stage, sales_df, store_sales, features_df, holdout, split,
                   conv, hours, calib_in, calib, rest>>

\* 03_forecasting.py "BASELINE MODELS"
BaselinesTop ==
    /\ stage = "baselines" /\ impl = "top" /\ forecasts_df.pc = "loaded"
    /\ forecasts_df' = BaselinesOf("top", features_df,
                                   SplitResultTop(DOMAIN features_df, holdout))
    /\ UNCHANGED <<impl, stage, sales_df, store_sales, features_df, holdout, split,
                   conv, hours, calib_in, calib, rest>>

NextBaselines == BaselinesSrc \/ BaselinesTop

SpecBaselines == InitBaselines /\ [][NextBaselines]_vars

\* the train rows of the store of a test row, in date order
OwnTrain(key) == StoreTrainKeys(forecasts_df.train, key[1])

\* C18: naive persistence. For every test row the prediction is the value of
\* the row's own store at that store's latest train date, also when that date
\* is earlier than the latest train date of the table; the global train mean is
\* used only when the store has no train row.
C18_NaiveIsLastOwnValue ==
    forecasts_df.pc = "predicted"
    => \A k \in forecasts_df.test :
          forecasts_df.naive[k]
            = IF OwnTrain(k) # <<>> THEN FromInt(features_df[LastOf(OwnTrain(k))])
              ELSE GlobalTrainMean(features_df, forecasts_df.train)


\* C19: seasonal persistence. For a test row of store e at date d the
\* prediction is e's train value at the seasonal offset before d; when e has
\* no train value there the prediction is the global train mean, so it is
\* always a defined number.
C19_SeasonalWithGlobalFallback ==
    forecasts_df.pc = "predicted"
    => \A k \in forecasts_df.test :
          /\ forecasts_df.seasonal[k]
               = IF <<k[1], k[2] - SeasonalOffset>> \in forecasts_df.train
                 THEN FromInt(features_df[<<k[1], k[2] - SeasonalOffset>>])
                 ELSE GlobalTrainMean(features_df, forecasts_df.train)
          /\ IsFinite(forecasts_df.seasonal[k])

\* C20: moving average. For every test row the prediction is the mean of the
\* last N train observations of the row's store in date order, of all of them
\* when the store has fewer than N; the global train mean is used only when the
\* store has no train row.
C20_MovingAverageOfLastN ==
    forecasts_df.pc = "predicted"
    => \A k \in forecasts_df.test :
          LET own == OwnTrain(k)
              n == Min(MovingAverageN, Len(own))
          IN  forecasts_df.ma[k]
                = IF own = <<>> THEN GlobalTrainMean(features_df, forecasts_df.train)
                  ELSE RatDiv(SumSeq([j \in 1 .. n |->
                                         FromInt(features_df[own[Len(own) - n + j]])]),
                              FromInt(n))

\* C20 witness: store 1 has the train values 1, 1, 3 and its test row is
\* predicted (1 + 3) / 2 = 2, not the mean 5/3 of all three; the test row of
\* store 2, which has no train row, gets the global train mean 5/3
C20_Witness ==
    /\ forecasts_df.pc = "predicted"
    /\ features_df = (<<1, 1>> :> 1 @@ <<1, 2>> :> 1 @@ <<1, 3>> :> 3 @@ <<1, 4>> :> 1
                      @@ <<2, 4>> :> 2)
    /\ holdout = 1
    /\ forecasts_df.ma[<<1, 4>>] = FromInt(2)
    /\ forecasts_df.ma[<<2, 4>>] = Rat(5, 3)


(***************************************************************************)
(* Forecast metrics: calculate_metrics and the forecasts table of          *)
(* src/03_model_training.py, the forecast diagnostics of 06_diagnostics.py *)
(***************************************************************************)
MaxScoreRows == 2

\* actual and predicted demand of a test row
ScoreVals == {0, 1, 2}

\* the test rows: y_true and y_pred per row
ScoreTables ==
    UNION {[1 .. n -> [y_true : ScoreVals, y_pred : ScoreVals]] : n \in 1 .. MaxScoreRows}

\* abs_error = np.abs(y_pred - y_true)
AbsErrorColumn(rows) ==
    [i \in 1 .. Len(rows) |-> FromInt(Abs(rows[i].y_pred - rows[i].y_true))]

\* pct_error = (y_pred - y_true) / y_true * 100, a Series division
PctErrorColumn(rows) ==
    [i \in 1 .. Len(rows) |->
        RatMul(RatDiv(FromInt(rows[i].y_pred - rows[i].y_true), FromInt(rows[i].y_true)),
               FromInt(100))]

\* calculate_metrics: mape = np.mean(np.abs((y_true - y_pred) / y_true)) * 100,
\* the mean of a Series (0/0 rows are NaN and skipped, x/0 rows are inf)
MapeSrc(rows) ==
    RatMul(MeanSeq([i \in 1 .. Len(rows) |->
                       RatAbs(RatDiv(FromInt(rows[i].y_true - rows[i].y_pred),
                                     FromInt(rows[i].y_true)))]),
           FromInt(100))

\* 06_diagnostics.py: abs_error.sum() / y_true.sum() * 100
MapeTop(rows) ==
    RatMul(RatDiv(SumSeq(AbsErrorColumn(rows)),
                  SumSeq([i \in 1 .. Len(rows) |-> FromInt(rows[i].y_true)])),
           FromInt(100))

\* what a script reports: the metrics and the columns it computes; RMSE and R2
\* read the same two columns and never divide by an actual
MetricsOf(i, rows) ==
    [MAE |-> MeanSeq(AbsErrorColumn(rows)),
     MAPE |-> IF i = "src" THEN MapeSrc(rows) ELSE MapeTop(rows),
     pct_error |-> PctErrorColumn(rows),
     reported |-> IF i = "src" THEN {"MAE", "RMSE", "MAPE", "R2"}
                  ELSE {"ME", "MAE", "RMSE", "MAPE"}]

InitMetrics ==
    /\ impl \in Impls
    /\ stage = "metrics"
    /\ metrics = [pc |-> "loaded", rows |-> <<>>, out |-> <<>>]
    /\ sales_df = Idle /\ store_sales = Idle
    /\ features_df = Idle /\ holdout = Idle /\ split = Idle
    /\ forecasts_df = Idle /\ conv = Idle /\ hours = Idle
    /\ calib_in = Idle /\ calib = Idle
    /\ orch = Idle /\ pod_id = Idle /\ pod_info = Idle /\ pods = Idle

\* src/03_model_training.py: calculate_metrics(y_test, y_test_pred, ...) and the
\* forecasts DataFrame
ScoreSrc ==
    /\ stage = "metrics" /\ impl = "src" /\ metrics.pc = "loaded"
    /\ \E rows \in ScoreTables :
          metrics' = [pc |-> "scored", rows |-> rows, out |-> MetricsOf("src", rows)]
    /\ UNCHANGED <<impl, stage, sales_df, store_sales, features_df, holdout, split,
                   forecasts_df, conv, hours, calib_in, calib, orch, pod_id, pod_info, pods>>

\* 06_diagnostics.py "FORECAST DIAGNOSTICS"
ScoreTop ==
    /\ stage = "metrics" /\ impl = "top" /\ metrics.pc = "loaded"
    /\ \E rows \in ScoreTables :
          metrics' = [pc |-> "scored", rows |-> rows, out |-> MetricsOf("top", rows)]
    /\ UNCHANGED <<impl, stage, sales_df, store_sales, features_df, holdout, split,
                   forecasts_df, conv, hours, calib_in, calib, orch, pod_id, pod_info, pods>>

NextMetrics == ScoreSrc \/ ScoreTop

SpecMetrics == InitMetrics /\ [][NextMetrics]_vars

\* the rows whose actual demand is not zero
NonZeroActual(rows) == SelectSeq(rows, LAMBDA r : r.y_true # 0)

\* C21: MAPE zero guard. MAPE is the mean absolute percentage error of the
\* rows whose actual demand is not zero, the number of rows whose actual
\* demand is zero is reported with the metrics, and no reported value comes
\* from a division by a zero actual (no percentage error is infinite).
C21_MapeZeroGuard ==
    metrics.pc = "scored"
    => LET nz == NonZeroActual(metrics.rows)
       IN  /\ nz # <<>>
              => metrics.out.MAPE
                   = RatMul(RatDiv(SumSeq([i \in 1 .. Len(nz) |->
                                     Rat(Abs(nz[i].y_true - nz[i].y_pred), Abs(nz[i].y_true))]),
                                   FromInt(Len(nz))),
                            FromInt(100))
           /\ "Zero_Actual_Count" \in metrics.out.reported
           /\ \A i \in 1 .. Len(metrics.rows) :
                 metrics.out.pct_error[i] \notin {PosInf, NegInf}


(***************************************************************************)
(* Stage 04: conversion of demand into labour hours, and the sensitivity   *)
(* sweep (src/04 section 10, top/06 "Sensitivity Analysis").               *)
(***************************************************************************)
NumHoursRows == 2

HoursStores == 1 .. NumHoursRows

SalesVals == {-200, 0, 130}

UnitsVals == {1, 2}

ErrVals == {0, 1}

RatioVals == {5, 10}

BASELINE_HOURS_PER_DAY == 8

AVG_ITEM_PRICE == 10

Modes == {"SPLH", "IPLH"}

\* config.PRODUCTIVITY_BY_STORE_TYPE
PRODUCTIVITY_BY_STORE_TYPE ==
    [t \in {"A", "B", "C"} |->
        IF t = "A" THEN [SPLH |-> 200, IPLH |-> 50]
        ELSE IF t = "B" THEN [SPLH |-> 180, IPLH |-> 45]
        ELSE [SPLH |-> 150, IPLH |-> 40]]

\* the Type column of stores_df
StoreType(s) == IF s = 1 THEN "A" ELSE IF s = 2 THEN "B" ELSE "C"

\* config.SENSITIVITY_RANGE = [0.8, 0.9, 1.0, 1.1, 1.2]
SENSITIVITY_RANGE == <<Rat(8, 10), Rat(9, 10), Rat(10, 10), Rat(11, 10), Rat(12, 10)>>

\* top/06: baseline_value * 0.7, * 0.85, * 1, * 1.15, * 1.3
SensitivityFactorsTop == <<Rat(70, 100), Rat(85, 100), Rat(1, 1), Rat(115, 100), Rat(130, 100)>>

\* hours_from_sales(sales, splh): return sales / splh
HoursFromSalesTimes(sales, splh) == RatMul(sales, splh)

HoursFromSales(sales, splh) == RatDiv(sales, splh)

\* hours_from_items(items, iplh): return items / iplh
HoursFromItems(items, iplh) == RatDiv(items, iplh)

\* one HoursRow: the demand handed to the converter, the ratio, and the hours
HoursRow(mode, demand, ratio, baseline) ==
    LET variable == IF mode = "SPLH" THEN HoursFromSales(demand, ratio)
                    ELSE HoursFromItems(demand, ratio)
    IN  [demand |-> demand, ratio |-> ratio, variable |-> variable,
         baseline |-> baseline, total |-> RatAdd(variable, baseline)]

\* src/04: the factor between a forecast row's demand (sales) and the quantity
\* converted: 1 under SPLH, 1 / avg_item_price under IPLH (estimated items)
UnitSrc(mode) == IF mode = "SPLH" THEN FromInt(1) ELSE Rat(1, AVG_ITEM_PRICE)

\* a conversion that keeps its previous result: the forecast hours of a row are
\* added to the actual hours computed just before
ConvertRowSrcCarry(cfg, r) ==
    LET ratio == FromInt(cfg.ratio[r.Store])
        base == FromInt(cfg.baseline)
        act == HoursRow(cfg.mode, RatMul(FromInt(r.y_true), UnitSrc(cfg.mode)), ratio, base)
        fc == HoursRow(cfg.mode, RatMul(FromInt(r.y_pred), UnitSrc(cfg.mode)), ratio, base)
        carried == [fc EXCEPT !.variable = RatAdd(act.variable, fc.variable),
                              !.total = RatAdd(RatAdd(act.variable, fc.variable), base)]
    IN  [Store |-> r.Store, y_true |-> r.y_true, y_pred |-> r.y_pred,
         unit |-> UnitSrc(cfg.mode), actual |-> act, forecast |-> carried,
         delta_hours |-> RatSub(carried.total, act.total)]

\* src/04 sections 7 and 8 and "Hours Comparison" for one row of forecasts_df
ConvertRowSrc(cfg, r) ==
    LET ratio == FromInt(cfg.ratio[r.Store])
        base == FromInt(cfg.baseline)
        act == HoursRow(cfg.mode, RatMul(FromInt(r.y_true), UnitSrc(cfg.mode)), ratio, base)
        fc == HoursRow(cfg.mode, RatMul(FromInt(r.y_pred), UnitSrc(cfg.mode)), ratio, base)
    IN  [Store |-> r.Store, y_true |-> r.y_true, y_pred |-> r.y_pred,
         unit |-> UnitSrc(cfg.mode), actual |-> act, forecast |-> fc,
         delta_hours |-> RatSub(fc.total, act.total)]

\* top/04: avg_sales_per_unit = df['total_sales'].sum() / df['total_units'].sum()
AvgSalesPerUnit(df) ==
    RatDiv(SumSeq([i \in 1 .. Len(df) |-> FromInt(df[i].total_sales)]),
           SumSeq([i \in 1 .. Len(df) |-> FromInt(df[i].total_units)]))

\* top/04: the factor applied to the predicted units before the conversion
UnitTop(mode, df) == IF mode = "SPLH" THEN AvgSalesPerUnit(df) ELSE FromInt(1)

\* top/04 section 7 for one row of df: the actual hours come from total_sales
\* under SPLH and from total_units under IPLH
ActualRowTop(cfg, r) ==
    HoursRow(cfg.mode,
             FromInt(IF cfg.mode = "SPLH" THEN r.total_sales ELSE r.total_units),
             FromInt(cfg.ratio[r.Store]), FromInt(cfg.baseline))

\* top/04 section 8 and "BUILD HOURS COMPARISON" for one forecast row: the
\* forecast hours come from y_pred (predicted units), turned into sales by
\* avg_sales_per_unit under SPLH
ConvertRowTop(cfg, df, r) ==
    LET act == ActualRowTop(cfg, r)
        fc == HoursRow(cfg.mode, RatMul(FromInt(r.y_pred), UnitTop(cfg.mode, df)),
                       FromInt(cfg.ratio[r.Store]), FromInt(cfg.baseline))
    IN  [Store |-> r.Store, y_true |-> r.y_true, y_pred |-> r.y_pred,
         unit |-> UnitTop(cfg.mode, df), actual |-> act, forecast |-> fc,
         delta_hours |-> RatSub(fc.total, act.total)]

\* the rows of the test period (forecasts.csv holds one row per test record)
TestRows(df) == SelectSeq(df, LAMBDA r : r.in_test)

\* the sweep row computed at the configured ratio, the factor not applied
SweepRowSrcUnscaled(cfg, df, factor) ==
    LET hrs == [i \in 1 .. Len(df) |->
                  HoursRow(cfg.mode, RatMul(FromInt(df[i].y_true), UnitSrc(cfg.mode)),
                           FromInt(cfg.ratio[df[i].Store]), FromInt(cfg.baseline)).total]
    IN  [factor |-> factor, total_hours |-> SumSeq(hrs), mean_hours |-> MeanSeq(hrs)]

\* src/04 section 10, one factor: hours_from_sales(y_true, SPLH * factor) (or
\* hours_from_items(y_true / avg_item_price, IPLH * factor)) plus the weekly
\* baseline, summed over the rows
SweepRowSrc(cfg, df, factor) ==
    LET hrs == [i \in 1 .. Len(df) |->
                  HoursRow(cfg.mode, RatMul(FromInt(df[i].y_true), UnitSrc(cfg.mode)),
                           RatMul(FromInt(cfg.ratio[df[i].Store]), factor),
                           FromInt(cfg.baseline)).total]
    IN  [factor |-> factor, total_hours |-> SumSeq(hrs), mean_hours |-> MeanSeq(hrs)]

\* top/06, one param_value = baseline_value * factor: test_data[output_col] /
\* param_value + BASELINE_HOURS_PER_STORE_DAY, summed over the test rows
SweepRowTop(cfg, df, factor) ==
    LET rows == TestRows(df)
        param == RatMul(FromInt(cfg.default), factor)
        hrs == [i \in 1 .. Len(rows) |->
                  RatAdd(RatDiv(FromInt(IF cfg.mode = "SPLH" THEN rows[i].total_sales
                                        ELSE rows[i].total_units), param),
                         FromInt(cfg.baseline))]
    IN  [factor |-> factor, total_hours |-> SumSeq(hrs), mean_hours |-> MeanSeq(hrs)]

\* the rows a run can load: src loads forecasts.csv (one row per test record,
\* y_true = Weekly_Sales); top loads features_full.csv (every record, y_true =
\* total_units) and forecasts.csv (the test records)
RowsOf(i, s) ==
    IF i = "src"
    THEN {[Store |-> s, total_sales |-> v, total_units |-> 1, y_true |-> v,
           y_pred |-> v + e, in_test |-> TRUE] : v \in SalesVals, e \in ErrVals}
    ELSE {[Store |-> s, total_sales |-> v, total_units |-> u, y_true |-> u,
           y_pred |-> u + e, in_test |-> t] :
             v \in SalesVals, u \in UnitsVals, e \in ErrVals, t \in BOOLEAN}

\* src: the ratios and the weekly baseline (8 * 7) of config.py; top: a
\* per-store dictionary with an entry for store 1 and a 'default' entry that
\* .get(store, default) returns for every other store, any positive values,
\* and a baseline of 8 hours
ConfigsOf(i) ==
    IF i = "src"
    THEN {[mode |-> m,
           ratio |-> [s \in HoursStores |-> PRODUCTIVITY_BY_STORE_TYPE[StoreType(s)][m]],
           default |-> IF m = "SPLH" THEN 200 ELSE 50,
           baseline |-> BASELINE_HOURS_PER_DAY * 7] : m \in Modes}
    ELSE {[mode |-> m, ratio |-> [s \in HoursStores |-> IF s = 1 THEN r ELSE d],
           default |-> d, baseline |-> BASELINE_HOURS_PER_DAY] :
             m \in Modes, r \in RatioVals, d \in RatioVals}

InitHours ==
    /\ impl \in Impls
    /\ stage = "hours"
    /\ forecasts_df \in [HoursStores -> UNION {RowsOf(impl, s) : s \in HoursStores}]
    /\ \A s \in HoursStores : forecasts_df[s].Store = s
    /\ \E s \in HoursStores : forecasts_df[s].in_test
    /\ conv \in ConfigsOf(impl)
    /\ hours = [pc |-> "loaded", comparison |-> <<>>, actual |-> <<>>, sweep |-> <<>>]
    /\ sales_df = Idle /\ store_sales = Idle
    /\ features_df = Idle /\ holdout = Idle /\ split = Idle
    /\ calib_in = Idle /\ calib = Idle
    /\ RestIdle

\* src/04_labor_conversion.py sections 7 and 8 and the hours comparison
LaborConversionSrc ==
    /\ stage = "hours" /\ impl = "src" /\ hours.pc = "loaded"
    /\ hours' = [hours EXCEPT
                   !.pc = "converted",
                   !.comparison = [i \in 1 .. Len(forecasts_df) |->
                                     ConvertRowSrc(conv, forecasts_df[i])],
                   !.actual = [i \in 1 .. Len(forecasts_df) |->
                                 ConvertRowSrc(conv, forecasts_df[i]).actual]]
    /\ UNCHANGED <<impl, stage, sales_df, store_sales, features_df, holdout, split,
                   forecasts_df, conv, calib_in, calib, rest>>

\* src/04_labor_conversion.py section 10
SensitivitySrc ==
    /\ stage = "hours" /\ impl = "src" /\ hours.pc = "converted"
    /\ hours' = [hours EXCEPT
                   !.pc = "swept",
                   !.sweep = [f \in 1 .. Len(SENSITIVITY_RANGE) |->
                                SweepRowSrc(conv, forecasts_df, SENSITIVITY_RANGE[f])]]
    /\ UNCHANGED <<impl, stage, sales_df, store_sales, features_df, holdout, split,
                   forecasts_df, conv, calib_in, calib, rest>>

\* 04_labor_conversion.py sections 7 and 8 and the hours comparison
LaborConversionTop ==
    /\ stage = "hours" /\ impl = "top" /\ hours.pc = "loaded"
    /\ LET test == TestRows(forecasts_df)
       IN  hours' = [hours EXCEPT
                       !.pc = "converted",
                       !.comparison = [i \in 1 .. Len(test) |->
                                         ConvertRowTop(conv, forecasts_df, test[i])],
                       !.actual = [i \in 1 .. Len(forecasts_df) |->
                                     ActualRowTop(conv, forecasts_df[i])]]
    /\ UNCHANGED <<impl, stage, sales_df, store_sales, features_df, holdout, split,
                   forecasts_df, conv, calib_in, calib, rest>>

\* 06_diagnostics.py "Sensitivity Analysis on IPLH/SPLH"
SensitivityTop ==
    /\ stage = "hours" /\ impl = "top" /\ hours.pc = "converted"
    /\ hours' = [hours EXCEPT
                   !.pc = "swept",
                   !.sweep = [f \in 1 .. Len(SensitivityFactorsTop) |->
                                SweepRowTop(conv, forecasts_df, SensitivityFactorsTop[f])]]
    /\ UNCHANGED <<impl, stage, sales_df, store_sales, features_df, holdout, split,
                   forecasts_df, conv, calib_in, calib, rest>>

NextHours == LaborConversionSrc \/ SensitivitySrc \/ LaborConversionTop \/ SensitivityTop

SpecHours == InitHours /\ [][NextHours]_vars

(***************************************************************************)
(* Properties of stage 04.                                                 *)
(***************************************************************************)
\* every HoursRow written by the conversion: actual and forecast
AllHoursRows ==
    {hours.actual[i] : i \in 1 .. Len(hours.actual)}
    \cup {hours.comparison[i].forecast : i \in 1 .. Len(hours.comparison)}

\* C6: hours conversion formula. In every HoursRow variable_hours is the
\* demand divided by the ratio and total_hours is variable_hours plus
\* baseline_hours, and baseline_hours is the same configured constant in every
\* row, whatever the row's demand.
C6_HoursFormula ==
    hours.pc # "loaded"
    => \A r \in AllHoursRows :
          /\ r.variable = RatDiv(r.demand, r.ratio)
          /\ r.total = RatAdd(r.variable, r.baseline)
          /\ r.baseline = FromInt(conv.baseline)

\* C6 witness: the example of the specification, demand 130 with ratio 10 and
\* baseline hours 8 gives 13 variable hours and 21 total hours
C6_Witness ==
    /\ hours.pc = "converted"
    /\ \E r \in AllHoursRows :
          /\ r.demand = FromInt(130) /\ r.ratio = FromInt(10)
          /\ r.baseline = FromInt(8)
          /\ r.variable = FromInt(13) /\ r.total = FromInt(21)

\* C7: delta isolates the forecast error. In every ComparisonRow delta_hours =
\* hours_forecast - hours_actual = (predicted demand - actual demand) / ratio,
\* both demands of the forecast row taken in the same unit, so delta_hours is 0
\* whenever the predicted demand equals the actual demand.
C7_DeltaIsForecastError ==
    hours.pc # "loaded"
    => \A i \in 1 .. Len(hours.comparison) :
          LET c == hours.comparison[i]
          IN  /\ c.delta_hours = RatSub(c.forecast.total, c.actual.total)
              /\ c.delta_hours
                   = RatDiv(RatMul(c.unit, FromInt(c.y_pred - c.y_true)), c.forecast.ratio)
              /\ (c.y_pred = c.y_true => c.delta_hours = FromInt(0))

\* the variable hours of the swept series at the unperturbed ratio (factor 1)
BaselineVariableHours ==
    LET one == CHOOSE f \in 1 .. Len(hours.sweep) : hours.sweep[f].factor = FromInt(1)
        n == IF impl = "src" THEN Len(forecasts_df) ELSE Len(TestRows(forecasts_df))
    IN  RatSub(hours.sweep[one].total_hours, FromInt(n * conv.baseline))

SweepStrictlyDecreasing ==
    \A f, g \in 1 .. Len(hours.sweep) :
        RatLess(hours.sweep[f].factor, hours.sweep[g].factor)
        => RatLess(hours.sweep[g].total_hours, hours.sweep[f].total_hours)

ConvertedTotalOfSweptRows ==
    LET ids == SelectSeq([i \in 1 .. Len(forecasts_df) |-> i],
                         LAMBDA i : forecasts_df[i].in_test)
    IN  SumSeq([j \in 1 .. Len(ids) |-> hours.actual[ids[j]].total])

MaxRatio == 2

ConvRatios == (-MaxRatio) .. MaxRatio

ConvDemandVals == {-130, 0, 130}

\* "float or array-like": a Python float or a pandas Series
ArgKinds == {"scalar", "series"}

\* sales / splh: a Series divides to inf or NaN by 0, a Python float raises
\* ZeroDivisionError; nothing else is checked
DivideResult(kind, fn, demand, ratio) ==
    IF kind = "scalar" /\ ratio = FromInt(0)
    THEN [pc |-> "error", error |-> "ZeroDivisionError", fn |-> fn, value |-> NaN]
    ELSE [pc |-> "returned", error |-> "", fn |-> fn,
          value |-> IF fn = "hours_from_items" THEN HoursFromItems(demand, ratio)
                    ELSE HoursFromSales(demand, ratio)]

InitConvert ==
    /\ impl \in Impls
    /\ stage = "convert"
    /\ conv \in [kind : ArgKinds, demand : ConvDemandVals, ratio : ConvRatios]
    /\ hours = [pc |-> "loaded", error |-> "", fn |-> "", value |-> NaN]
    /\ sales_df = Idle /\ store_sales = Idle
    /\ features_df = Idle /\ holdout = Idle /\ split = Idle
    /\ forecasts_df = Idle /\ calib_in = Idle /\ calib = Idle
    /\ RestIdle

\* hours_from_sales(sales, splh) of either script
CallHoursFromSales ==
    /\ stage = "convert" /\ hours.pc = "loaded"
    /\ hours' = DivideResult(conv.kind, "hours_from_sales", FromInt(conv.demand),
                             FromInt(conv.ratio))
    /\ UNCHANGED <<impl, stage, sales_df, store_sales, features_df, holdout, split,
                   forecasts_df, conv, calib_in, calib, rest>>

\* hours_from_items(items, iplh) of either script
CallHoursFromItems ==
    /\ stage = "convert" /\ hours.pc = "loaded"
    /\ hours' = DivideResult(conv.kind, "hours_from_items", FromInt(conv.demand),
                             FromInt(conv.ratio))
    /\ UNCHANGED <<impl, stage, sales_df, store_sales, features_df, holdout, split,
                   forecasts_df, conv, calib_in, calib, rest>>

\* src/04 section 10: hours_from_sales(forecasts_df['y_true'],
\* forecasts_df['SPLH'] * factor) for a factor of config.SENSITIVITY_RANGE
CallAdjustedSplh ==
    /\ stage = "convert" /\ impl = "src" /\ hours.pc = "loaded"
    /\ \E f \in 1 .. Len(SENSITIVITY_RANGE) :
          hours' = DivideResult(conv.kind, "adjusted_splh", FromInt(conv.demand),
                                RatMul(FromInt(conv.ratio), SENSITIVITY_RANGE[f]))
    /\ UNCHANGED <<impl, stage, sales_df, store_sales, features_df, holdout, split,
                   forecasts_df, conv, calib_in, calib, rest>>

NextConvert == CallHoursFromSales \/ CallHoursFromItems \/ CallAdjustedSplh

SpecConvert == InitConvert /\ [][NextConvert]_vars

\* C12: a non-positive ratio is rejected. Whenever the ratio is <= 0 the
\* conversion fails with ConfigError and emits no hours value (no infinite,
\* NaN or sign-flipped hours).
C12_NonPositiveRatioRejected ==
    (hours.pc # "loaded" /\ conv.ratio <= 0)
    => hours.pc = "error" /\ hours.error = "ConfigError"

(***************************************************************************)
(* The demand of a record through the stages of the src pipeline: the      *)
(* aggregation and the target of src/02, the forecast rows of src/03 and   *)
(* the hours of src/04.                                                    *)
(***************************************************************************)
MaxChainRows == 3

\* department-level Weekly_Sales, returns and adjustments included
ChainSalesVals == {-3, 1, 2}

ChainTables ==
    UNION {[1 .. n -> [Store : Stores, Date : RawDates, Weekly_Sales : ChainSalesVals]] :
             n \in 1 .. MaxChainRows}

\* a target that is cut off at zero
TargetColumnClipped(agg) ==
    [k \in DOMAIN agg |-> [Weekly_Sales |-> agg[k], Target |-> Max(0, agg[k])]]

\* src/02: store_sales['Target'] = store_sales['Weekly_Sales']
TargetColumn(agg) ==
    [k \in DOMAIN agg |-> [Weekly_Sales |-> agg[k], Target |-> agg[k]]]

\* src/03 forecasts: one row per test record, y_true = y_test = the Target of
\* the record, y_pred = the prediction of the model (err = y_pred - y_true)
ForecastRowsSrc(rows, test, err) ==
    [k \in test |-> [Store |-> k[1], y_true |-> rows[k].Target,
                     y_pred |-> rows[k].Target + err[k]]]

InitChain ==
    /\ impl = "src"
    /\ stage = "chain"
    /\ sales_df \in ChainTables
    /\ store_sales = [pc |-> "loaded", rows |-> <<>>]
    /\ holdout = 1
    /\ forecasts_df = [pc |-> "loaded", error |-> "", rows |-> <<>>]
    /\ conv \in ConfigsOf("src")
    /\ hours = [pc |-> "loaded", rows |-> <<>>]
    /\ features_df = Idle /\ split = Idle
    /\ calib_in = Idle /\ calib = Idle
    /\ RestIdle

\* src/02_feature_engineering.py: aggregation to store level and the target
ChainFeatures ==
    /\ stage = "chain" /\ store_sales.pc = "loaded"
    /\ store_sales' = [pc |-> "built", rows |-> TargetColumn(GroupBySum(sales_df))]
    /\ UNCHANGED <<impl, stage, sales_df, features_df, holdout, split, forecasts_df,
                   conv, hours, calib_in, calib, rest>>

\* src/03_model_training.py: the split and the forecasts table of the test rows
ChainForecast ==
    /\ stage = "chain" /\ store_sales.pc = "built" /\ forecasts_df.pc = "loaded"
    /\ LET sp == SplitResultSrc(DOMAIN store_sales.rows, holdout)
       IN  IF sp.pc = "error"
           THEN forecasts_df' = [pc |-> "error", error |-> sp.error, rows |-> <<>>]
           ELSE IF sp.train = {}    \* rf_model.fit(X_train, y_train) on no rows
           THEN forecasts_df' = [pc |-> "error", error |-> "ValueError", rows |-> <<>>]
           ELSE \E err \in [sp.test -> ErrVals] :
                   forecasts_df' = [pc |-> "saved", error |-> "",
                                    rows |-> ForecastRowsSrc(store_sales.rows, sp.test, err)]
    /\ UNCHANGED <<impl, stage, sales_df, store_sales, features_df, holdout, split,
                   conv, hours, calib_in, calib, rest>>

\* src/04_labor_conversion.py sections 7 and 8 on the saved forecast rows
ChainConvert ==
    /\ stage = "chain" /\ forecasts_df.pc = "saved" /\ hours.pc = "loaded"
    /\ hours' = [pc |-> "converted",
                 rows |-> [k \in DOMAIN forecasts_df.rows |->
                             ConvertRowSrc(conv, forecasts_df.rows[k])]]
    /\ UNCHANGED <<impl, stage, sales_df, store_sales, features_df, holdout, split,
                   forecasts_df, conv, calib_in, calib, rest>>

NextChain == ChainFeatures \/ ChainForecast \/ ChainConvert

SpecChain == InitChain /\ [][NextChain]_vars

\* the demand of the record of a key: its department records added up
RecordDemand(k) == SumWhere(sales_df, k, Len(sales_df))

\* C25: negative demand is preserved. The demand of a record, negative or
\* not, is the target of its feature row, the actual demand of its forecast
\* row, and the demand its hours row divides by the ratio; a negative demand
\* gives negative variable hours.
C25_NegativeDemandPreserved ==
    /\ store_sales.pc = "built"
       => \A k \in DOMAIN store_sales.rows : store_sales.rows[k].Target = RecordDemand(k)
    /\ forecasts_df.pc = "saved"
       => \A k \in DOMAIN forecasts_df.rows : forecasts_df.rows[k].y_true = RecordDemand(k)
    /\ hours.pc = "converted"
       => \A k \in DOMAIN hours.rows :
             /\ hours.rows[k].actual.variable
                  = RatDiv(RatMul(FromInt(RecordDemand(k)), UnitSrc(conv.mode)),
                           FromInt(conv.ratio[k[1]]))
             /\ RecordDemand(k) < 0 => RatLess(hours.rows[k].actual.variable, FromInt(0))

\* C25 witness: store 1 has the department records -3 and 1 at date 2, after
\* a train record at date 1; its demand -2 is a test record and is converted
\* to -2 / 200 variable hours
C25_Witness ==
    /\ hours.pc = "converted" /\ conv.mode = "SPLH"
    /\ Len(sales_df) = 3 /\ sales_df[1].Date = 1
    /\ RecordDemand(<<1, 2>>) = -2
    /\ store_sales.rows[<<1, 2>>].Target = -2
    /\ forecasts_df.rows[<<1, 2>>].y_true = -2
    /\ hours.rows[<<1, 2>>].actual.variable = Rat(-2, 200)


(***************************************************************************)
(* Stage 05: productivity calibration against the BLS benchmark.           *)
(***************************************************************************)
MaxQuarter == 2

BLS_COMPARISON_START_YEAR == 2010

BLS_COMPARISON_END_YEAR == 2012

CalibRowIds == {1, 2}

CalibYears == {2010, 2011}

CalibDemandVals == {2, 6}

CalibHoursVals == {1, 2}

CpiVals == {1, 2}

BlsVals == {100, 110}

\* a period is <<Year, Quarter>>; annual periods have quarter 0
PeriodLeq(p, q) == p[1] < q[1] \/ (p[1] = q[1] /\ p[2] <= q[2])

\* the first row of a table grouped (and so sorted) by period: .iloc[0]
FirstPeriod(P) == CHOOSE p \in P : \A q \in P : PeriodLeq(p, q)

\* the column values of the rows of one group, as a sequence
RECURSIVE GroupSeq(_, _)
GroupSeq(col, ids) ==
    IF ids = {} THEN <<>>
    ELSE LET i == CHOOSE x \in ids : \A y \in ids : x <= y
         IN  <<col[i]>> \o GroupSeq(col, ids \ {i})

\* src/05: y_true * (reference_cpi / CPI) / Hours_Actual with reference_cpi =
\* hours_comparison['CPI'].min()
ImpliedProductivityReal(rows, r) ==
    LET ref == CHOOSE c \in {rows[i].CPI : i \in DOMAIN rows} :
                  \A d \in {rows[i].CPI : i \in DOMAIN rows} : c <= d
    IN  RatDiv(RatMul(FromInt(r.demand), Rat(ref, r.CPI)), FromInt(r.hours))

\* src/05: groupby(['Year', 'Quarter', 'YearQuarter']).agg({...,
\* 'Implied_Productivity_Real': 'mean'}), the column the index is built from
QuarterlyProductivitySrc(rows, p) ==
    MeanSeq(GroupSeq([i \in DOMAIN rows |-> ImpliedProductivityReal(rows, rows[i])],
                     {i \in DOMAIN rows : <<rows[i].Year, rows[i].Quarter>> = p}))

\* value / base * 100
Rebase(value, base) == RatMul(RatDiv(value, base), FromInt(100))

\* src/05: bls_df filtered to the configured comparison years
BlsStudy(bls) ==
    {y \in DOMAIN bls : BLS_COMPARISON_START_YEAR <= y /\ y <= BLS_COMPARISON_END_YEAR}

\* a deviation that reaches the threshold is flagged as well
IsFlaggedFromThreshold(dev_pct) ==
    RatLess(FromInt(10), RatAbs(dev_pct)) \/ RatAbs(dev_pct) = FromInt(10)

\* src/05: abs(comparison_table['Deviation_Pct']) > deviation_threshold, with
\* deviation_threshold = 10.0 (a NaN deviation compares False)
IsFlagged(dev_pct) == RatLess(FromInt(10), RatAbs(dev_pct))

\* src/05_productivity_calibration.py lines 104-255. The implied index is
\* rebased on the first quarter of the data; the benchmark on the value of
\* quarterly['Year'].min(), and .values[0] raises IndexError when bls_study has
\* no row for that year.
CalibrateSrc(rows, bls) ==
    LET periods == {<<rows[i].Year, rows[i].Quarter>> : i \in DOMAIN rows}
        base == FirstPeriod(periods)
        study == BlsStudy(bls)
        implied == [p \in periods |->
                      Rebase(QuarterlyProductivitySrc(rows, p),
                             QuarterlyProductivitySrc(rows, base))]
        bls_index == [p \in periods |-> IF p[1] \in study THEN FromInt(bls[p[1]]) ELSE NaN]
        bench == [p \in periods |-> Rebase(bls_index[p], FromInt(bls[base[1]]))]
        dev == [p \in periods |->
                  RatMul(RatSub(RatDiv(implied[p], bench[p]), FromInt(1)), FromInt(100))]
    IN  IF base[1] \notin study
        THEN [pc |-> "error", error |-> "IndexError", local |-> <<>>, implied |-> <<>>,
              bench |-> <<>>, implied_base |-> base, bench_base |-> base, flagged |-> {}]
        ELSE [pc |-> "done", error |-> "",
              local |-> [p \in periods |-> QuarterlyProductivitySrc(rows, p)],
              implied |-> implied, bench |-> bench,
              implied_base |-> base, bench_base |-> <<base[1], 0>>,
              flagged |-> {p \in periods : IsFlagged(dev[p])}]

\* top/05: yearly_productivity['total_sales'] / yearly_productivity['hours_total']
\* after groupby('year') with 'sum'
YearlyProductivityTop(rows, y) ==
    LET ids == {i \in DOMAIN rows : rows[i].Year = y}
    IN  RatDiv(SumSeq(GroupSeq([i \in DOMAIN rows |-> FromInt(rows[i].demand)], ids)),
               SumSeq(GroupSeq([i \in DOMAIN rows |-> FromInt(rows[i].hours)], ids)))

\* top/05_productivity_calibration.py lines 141-256. bls_filtered holds the
\* benchmark rows of the years in the data, sorted by year; each series is
\* divided by its own first row: bls_normalized by bls_filtered's first year,
\* store_normalized by the first year of the data.
CalibrateTop(rows, bls) ==
    LET years == {rows[i].Year : i \in DOMAIN rows}
        bls_filtered == {y \in DOMAIN bls : y \in years}
        first == CHOOSE y \in years : \A z \in years : y <= z
        bls_first == CHOOSE y \in bls_filtered : \A z \in bls_filtered : y <= z
    IN  IF bls_filtered = {}
        THEN [pc |-> "done", error |-> "",
              local |-> [p \in {<<y, 0>> : y \in years} |-> YearlyProductivityTop(rows, p[1])],
              implied |-> <<>>, bench |-> <<>>,
              implied_base |-> <<first, 0>>, bench_base |-> <<first, 0>>, flagged |-> {}]
        ELSE [pc |-> "done", error |-> "",
              local |-> [p \in {<<y, 0>> : y \in years} |-> YearlyProductivityTop(rows, p[1])],
              implied |-> [p \in {<<y, 0>> : y \in years} |->
                             Rebase(YearlyProductivityTop(rows, p[1]),
                                    YearlyProductivityTop(rows, first))],
              bench |-> [p \in {<<y, 0>> : y \in bls_filtered} |->
                             Rebase(FromInt(bls[p[1]]), FromInt(bls[bls_first]))],
              implied_base |-> <<first, 0>>, bench_base |-> <<bls_first, 0>>,
              flagged |-> {}]

\* the benchmark series a run can load: a value for some of the years
BlsTables == UNION {[Y -> BlsVals] : Y \in SUBSET CalibYears}

\* the hours rows a run can load, in date order; top/05 reads no quarter and
\* no CPI
CalibRows(i) ==
    IF i = "src"
    THEN [Year : CalibYears, Quarter : 1 .. MaxQuarter, demand : CalibDemandVals,
          hours : CalibHoursVals, CPI : CpiVals]
    ELSE [Year : CalibYears, Quarter : {1}, demand : CalibDemandVals,
          hours : CalibHoursVals, CPI : {1}]

InitCalib ==
    /\ impl \in Impls
    /\ stage = "calib"
    /\ calib_in \in [rows : [CalibRowIds -> CalibRows(impl)], bls : BlsTables]
    /\ \A i, j \in CalibRowIds :
          i <= j => PeriodLeq(<<calib_in.rows[i].Year, calib_in.rows[i].Quarter>>,
                              <<calib_in.rows[j].Year, calib_in.rows[j].Quarter>>)
    /\ calib = [pc |-> "loaded", error |-> "", local |-> <<>>, implied |-> <<>>, bench |-> <<>>,
                implied_base |-> <<0, 0>>, bench_base |-> <<0, 0>>, flagged |-> {}]
    /\ sales_df = Idle /\ store_sales = Idle
    /\ features_df = Idle /\ holdout = Idle /\ split = Idle
    /\ forecasts_df = Idle /\ conv = Idle /\ hours = Idle
    /\ RestIdle

\* one run of src/05_productivity_calibration.py
ProductivityCalibrationSrc ==
    /\ stage = "calib" /\ impl = "src" /\ calib.pc = "loaded"
    /\ calib' = CalibrateSrc(calib_in.rows, calib_in.bls)
    /\ UNCHANGED <<impl, stage, sales_df, store_sales, features_df, holdout, split,
                   forecasts_df, conv, hours, calib_in, rest>>

\* one run of 05_productivity_calibration.py
ProductivityCalibrationTop ==
    /\ stage = "calib" /\ impl = "top" /\ calib.pc = "loaded"
    /\ calib' = CalibrateTop(calib_in.rows, calib_in.bls)
    /\ UNCHANGED <<impl, stage, sales_df, store_sales, features_df, holdout, split,
                   forecasts_df, conv, hours, calib_in, rest>>

NextCalib == ProductivityCalibrationSrc \/ ProductivityCalibrationTop

SpecCalib == InitCalib /\ [][NextCalib]_vars

(***************************************************************************)
(* Properties of stage 05.                                                 *)
(***************************************************************************)
\* C8: rebasing correctness. After a calibration that produced both index
\* series, the implied index and the benchmark index are both exactly 100 at
\* the baseline period (the first period of the local data), and the benchmark
\* is rebased on the year of that same period.
C8_RebasedOnSamePeriod ==
    (calib.pc = "done" /\ calib.implied # <<>>)
    => LET b == calib.implied_base
       IN  /\ calib.implied[b] = FromInt(100)
           /\ calib.bench_base[1] = b[1]
           /\ \A p \in DOMAIN calib.bench : p[1] = b[1] => calib.bench[p] = FromInt(100)
           /\ \E p \in DOMAIN calib.bench : p[1] = b[1]

\* the records of calib_in that fall into period p: a quarter of src/05, a
\* year of top/05
PeriodRows(p) ==
    {i \in DOMAIN calib_in.rows :
        /\ calib_in.rows[i].Year = p[1]
        /\ (p[2] # 0 => calib_in.rows[i].Quarter = p[2])}

UniformCpi == \A i, j \in DOMAIN calib_in.rows : calib_in.rows[i].CPI = calib_in.rows[j].CPI

\* C16: sum-not-mean productivity. The local productivity of a period, from
\* which the implied index is computed, is (sum of demand over the period) /
\* (sum of hours over the period), not the mean of the per-record ratios (stated
\* for tables with one CPI value, where real and nominal demand are equal).
C16_SumNotMean ==
    (calib.pc = "done" /\ UniformCpi)
    => \A p \in DOMAIN calib.local :
          calib.local[p]
            = RatDiv(SumSeq(GroupSeq([i \in DOMAIN calib_in.rows |->
                                         FromInt(calib_in.rows[i].demand)], PeriodRows(p))),
                     SumSeq(GroupSeq([i \in DOMAIN calib_in.rows |->
                                         FromInt(calib_in.rows[i].hours)], PeriodRows(p))))

\* |implied_index - benchmark_index| / benchmark_index of a period
RelativeDeviation(p) ==
    RatDiv(RatAbs(RatSub(calib.implied[p], calib.bench[p])), calib.bench[p])

\* C17: deviation flagging (src/05, the script that compares with the
\* benchmark). A period is flagged if and only if |implied_index -
\* benchmark_index| / benchmark_index > 10%, strictly: a period whose relative
\* deviation is exactly 10% is not flagged. The calibration step changes no
\* loaded table.
C17_FlaggedIffAboveThreshold ==
    /\ [](calib.pc = "done" /\ impl = "src"
           => \A p \in DOMAIN calib.implied :
                 p \in calib.flagged <=> RatLess(Rat(10, 100), RelativeDeviation(p)))
    /\ [][calib_in' = calib_in]_vars

\* C17 witness: the benchmark fell from 110 to 100 while the local productivity
\* stayed the same, a relative deviation of exactly 10%, and the period is not
\* flagged
C17_Witness ==
    /\ calib.pc = "done" /\ impl = "src"
    /\ <<2011, 1>> \in DOMAIN calib.implied
    /\ calib.implied[<<2011, 1>>] = FromInt(100)
    /\ calib.bench[<<2011, 1>>] = Rat(1000, 11)
    /\ RelativeDeviation(<<2011, 1>>) = Rat(10, 100)
    /\ <<2011, 1>> \notin calib.flagged

(***************************************************************************)
(* The orchestrators run_all.py and run_pipeline.py: a loop over the list  *)
(* of stage scripts, each run as a subprocess.                             *)
(***************************************************************************)
Runners == {"run_all", "run_pipeline"}

\* the scripts list of each orchestrator, in the listed order
Scripts(runner) ==
    IF runner = "run_all"
    THEN <<"src/01_setup_and_load.py", "src/02_feature_engineering.py",
           "src/03_model_training.py", "src/04_labor_conversion.py",
           "src/05_productivity_calibration.py", "src/06_generate_report.py">>
    ELSE <<"01_environment_and_data_loading.py", "02_feature_engineering.py",
           "03_forecasting.py", "04_labor_conversion.py",
           "05_productivity_calibration.py", "06_diagnostics.py",
           "07_generate_report.py">>

\* what the loop finds for a script: the file is missing, or the subprocess
\* returns 0, or it returns another code
Outcomes == {"missing", "ok", "failed"}

InitOrch ==
    /\ orch \in [runner : Runners, next : {1}, pc : {"running"}, started : {<<>>},
                 status : {<<>>}]
    /\ impl = Idle /\ stage = "orchestrator"
    /\ sales_df = Idle /\ store_sales = Idle
    /\ features_df = Idle /\ holdout = Idle /\ split = Idle
    /\ forecasts_df = Idle /\ conv = Idle /\ hours = Idle
    /\ calib_in = Idle /\ calib = Idle
    /\ metrics = Idle /\ pod_id = Idle /\ pod_info = Idle /\ pods = Idle

\* one iteration of the loop of run_all.py: subprocess.run of the script (a
\* missing file makes the interpreter return a non-zero code), sys.exit(1) on
\* a non-zero return code
RunAllStep ==
    /\ stage = "orchestrator" /\ orch.runner = "run_all" /\ orch.pc = "running"
    /\ orch.next <= Len(Scripts("run_all"))
    /\ \E out \in Outcomes :
          orch' = [orch EXCEPT
                     !.started = Append(@, orch.next),
                     !.status = Append(@, IF out = "ok" THEN "ok" ELSE "failed"),
                     !.next = @ + 1,
                     !.pc = IF out = "ok" THEN "running" ELSE "exit 1"]
    /\ UNCHANGED <<impl, stage, sales_df, store_sales, features_df, holdout, split,
                   forecasts_df, conv, hours, calib_in, calib, metrics, pod_id,
                   pod_info, pods>>

\* one iteration of the loop of run_pipeline.py main(): a script that does not
\* exist is reported and skipped (continue); run_script returns False when the
\* subprocess fails and main calls sys.exit(1)
RunPipelineStep ==
    /\ stage = "orchestrator" /\ orch.runner = "run_pipeline" /\ orch.pc = "running"
    /\ orch.next <= Len(Scripts("run_pipeline"))
    /\ \E out \in Outcomes :
          orch' = [orch EXCEPT
                     !.started = IF out = "missing" THEN @ ELSE Append(@, orch.next),
                     !.status = Append(@, IF out = "missing" THEN "not run" ELSE out),
                     !.next = @ + 1,
                     !.pc = IF out = "failed" THEN "exit 1" ELSE "running"]
    /\ UNCHANGED <<impl, stage, sales_df, store_sales, features_df, holdout, split,
                   forecasts_df, conv, hours, calib_in, calib, metrics, pod_id,
                   pod_info, pods>>

\* the end of the loop: run_all.py prints the summary; run_pipeline.py exits
\* with 1 when success_count is not the number of scripts
LoopEnd ==
    /\ stage = "orchestrator" /\ orch.pc = "running"
    /\ orch.next = Len(Scripts(orch.runner)) + 1
    /\ orch' = [orch EXCEPT
                  !.pc = IF \A i \in 1 .. Len(orch.status) : orch.status[i] = "ok"
                         THEN "complete" ELSE "exit 1"]
    /\ UNCHANGED <<impl, stage, sales_df, store_sales, features_df, holdout, split,
                   forecasts_df, conv, hours, calib_in, calib, metrics, pod_id,
                   pod_info, pods>>

NextOrch == RunAllStep \/ RunPipelineStep \/ LoopEnd

SpecOrch == InitOrch /\ [][NextOrch]_vars

\* C26: dependency order with fail-stop. The stages are started in the listed
\* order; a stage is started only when every stage listed before it has run
\* and completed successfully; no stage is started after a stage that failed.
C26_DependencyOrderFailStop ==
    /\ \A a, b \in 1 .. Len(orch.started) : a < b => orch.started[a] < orch.started[b]
    /\ \A a \in 1 .. Len(orch.started) :
          \A i \in 1 .. (orch.started[a] - 1) : orch.status[i] = "ok"
    /\ \A i \in 1 .. Len(orch.status) :
          orch.status[i] = "failed"
          => \A a \in 1 .. Len(orch.started) : orch.started[a] <= i

(***************************************************************************)
(* The forecast rows written by stage 03 and the hours comparison built    *)
(* from them by stage 04, with the merges the scripts perform.             *)
(***************************************************************************)
\* the feature tables: (Store, Date) is a unique key, the value is the units
\* (top) or the sales (src) of the record
CompareTables ==
    {tab \in UNION {[K -> {1, 2, 3}] : K \in SUBSET AllKeySet} :
        \A k \in DOMAIN tab : tab[k] \in TargetVals(k[1])}

\* features_full.csv as the top-level scripts load it
DfRowsTop(tab) ==
    LET ks == SortedKeys(tab)
    IN  [i \in 1 .. Len(ks) |->
            [Store |-> ks[i][1], Date |-> ks[i][2], total_units |-> tab[ks[i]],
             total_sales |-> 130 * tab[ks[i]]]]

\* a merge on the Store column alone
SameStoreOnly(l, r) == l.Store = r.Store

\* on=['Date', 'Store']
SameKey(l, r) == l.Store = r.Store /\ l.Date = r.Date

\* left.merge(right[[...]], on=['Date', 'Store'], how='left'): every left row
\* once per matching right row, once with missing values when none matches;
\* cols maps the name of each added column to the column of right it holds
RECURSIVE LeftMerge(_, _, _)
LeftMerge(left, right, cols) ==
    IF left = <<>> THEN <<>>
    ELSE LET l == Head(left)
             m == SelectSeq(right, LAMBDA r : SameKey(l, r))
             out == IF m = <<>> THEN <<l @@ [c \in DOMAIN cols |-> NaN]>>
                    ELSE [j \in 1 .. Len(m) |-> l @@ [c \in DOMAIN cols |-> m[j][cols[c]]]]
         IN  out \o LeftMerge(Tail(left), right, cols)

\* stores_clean: one row per store
StoresDf == [s \in Stores |-> [Store |-> s, Type |-> StoreType(s)]]

\* 03_forecasting.py: forecasts = test_df[['Date', 'Store']] with y_true and
\* y_pred
ForecastsTop(tab, test, e) ==
    LET ks == SelectSeq(SortedKeys(tab), LAMBDA k : k \in test)
    IN  [i \in 1 .. Len(ks) |->
            [Store |-> ks[i][1], Date |-> ks[i][2], y_true |-> tab[ks[i]],
             y_pred |-> tab[ks[i]] + e]]

\* src/03_model_training.py: the forecasts DataFrame of the test rows, merged
\* with stores_df on Store (how='left')
ForecastsSrc(tab, test, e) ==
    LET rows == ForecastsTop(tab, test, e)
        stores == [s \in 1 .. Cardinality(Stores) |-> StoresDf[s]]
        typed(l) == LET m == SelectSeq(stores, LAMBDA r : r.Store = l.Store)
                    IN  IF m = <<>> THEN <<l @@ [Type |-> NaN]>>
                        ELSE [j \in 1 .. Len(m) |-> l @@ [Type |-> m[j].Type]]
        F[i \in 0 .. Len(rows)] == IF i = 0 THEN <<>> ELSE F[i - 1] \o typed(rows[i])
    IN  F[Len(rows)]

\* 04_labor_conversion.py: hours_actual of every record of df, hours_forecast
\* of every row of forecasts merged with df, and the comparison: the forecast
\* rows merged with hours_actual and then with hours_forecast
CompareTop(cfg, df, forecasts) ==
    LET hours_actual == [i \in 1 .. Len(df) |->
                           [Store |-> df[i].Store, Date |-> df[i].Date,
                            hours_total |-> ActualRowTop(cfg, df[i]).total]]
        forecast_with_actuals ==
            LeftMerge(forecasts, df,
                      [c \in {"total_sales", "total_units"} |-> c])
        hours_forecast ==
            [i \in 1 .. Len(forecast_with_actuals) |->
                [Store |-> forecast_with_actuals[i].Store,
                 Date |-> forecast_with_actuals[i].Date,
                 hours_total |-> ConvertRowTop(cfg, df, forecast_with_actuals[i]).forecast.total]]
        base == [i \in 1 .. Len(forecast_with_actuals) |->
                   [Store |-> forecast_with_actuals[i].Store,
                    Date |-> forecast_with_actuals[i].Date,
                    y_true |-> forecast_with_actuals[i].y_true,
                    y_pred |-> forecast_with_actuals[i].y_pred]]
    IN  [pc |-> "compared", hours_actual |-> hours_actual, hours_forecast |-> hours_forecast,
         comparison |->
            LeftMerge(LeftMerge(base, hours_actual, [c \in {"hours_actual"} |-> "hours_total"]),
                      hours_forecast, [c \in {"hours_forecast"} |-> "hours_total"])]

\* src/04_labor_conversion.py: Hours_Actual and Hours_Forecast are columns of
\* forecasts_df; hours_actual, hours_forecast and hours_comparison are column
\* selections of it
CompareSrc(cfg, forecasts) ==
    LET conv_rows == [i \in 1 .. Len(forecasts) |-> ConvertRowSrc(cfg, forecasts[i])]
    IN  [pc |-> "compared",
         hours_actual |-> [i \in 1 .. Len(forecasts) |->
                             [Store |-> forecasts[i].Store, Date |-> forecasts[i].Date,
                              hours_total |-> conv_rows[i].actual.total]],
         hours_forecast |-> [i \in 1 .. Len(forecasts) |->
                               [Store |-> forecasts[i].Store, Date |-> forecasts[i].Date,
                                hours_total |-> conv_rows[i].forecast.total]],
         comparison |-> [i \in 1 .. Len(forecasts) |->
                           [Store |-> forecasts[i].Store, Date |-> forecasts[i].Date,
                            y_true |-> forecasts[i].y_true, y_pred |-> forecasts[i].y_pred,
                            hours_actual |-> conv_rows[i].actual.total,
                            hours_forecast |-> conv_rows[i].forecast.total]]]

\* a loaded table, a holdout and a configuration (top: every store on the
\* default ratio; the ratios do not bear on the rows that are written)
InitCompare ==
    /\ impl \in Impls
    /\ stage = "compare"
    /\ features_df \in CompareTables
    /\ holdout \in {1, 2}
    /\ forecasts_df = [pc |-> "loaded", error |-> "", rows |-> <<>>]
    /\ conv \in {c \in ConfigsOf(impl) : c.ratio[1] = c.default \/ impl = "src"}
    /\ hours = [pc |-> "loaded", hours_actual |-> <<>>, hours_forecast |-> <<>>,
                comparison |-> <<>>]
    /\ sales_df = Idle /\ store_sales = Idle /\ split = Idle
    /\ calib_in = Idle /\ calib = Idle
    /\ RestIdle

\* stage 03 of either pipeline: the split, the model fit (which fails without
\* train rows) and the forecasts table
WriteForecasts ==
    /\ stage = "compare" /\ forecasts_df.pc = "loaded"
    /\ LET sp == IF impl = "src" THEN SplitResultSrc(DOMAIN features_df, holdout)
                 ELSE SplitResultTop(DOMAIN features_df, holdout)
       IN  IF sp.pc = "error"
           THEN forecasts_df' = [pc |-> "error", error |-> sp.error, rows |-> <<>>]
           ELSE IF sp.train = {}
           THEN forecasts_df' = [pc |-> "error", error |-> "ValueError", rows |-> <<>>]
           ELSE \E e \in ErrVals :
                   forecasts_df' =
                       [pc |-> "saved", error |-> "",
                        rows |-> IF impl = "src" THEN ForecastsSrc(features_df, sp.test, e)
                                 ELSE ForecastsTop(features_df, sp.test, e)]
    /\ UNCHANGED <<impl, stage, sales_df, store_sales, features_df, holdout, split,
                   conv, hours, calib_in, calib, rest>>

\* stage 04 of either pipeline on the saved forecasts
BuildComparison ==
    /\ stage = "compare" /\ forecasts_df.pc = "saved" /\ hours.pc = "loaded"
    /\ hours' = IF impl = "src" THEN CompareSrc(conv, forecasts_df.rows)
                ELSE CompareTop(conv, DfRowsTop(features_df), forecasts_df.rows)
    /\ UNCHANGED <<impl, stage, sales_df, store_sales, features_df, holdout, split,
                   forecasts_df, conv, calib_in, calib, rest>>

NextCompare == WriteForecasts \/ BuildComparison

SpecCompare == InitCompare /\ [][NextCompare]_vars

\* the test records: the records dated at one of the holdout latest dates
TestKeys == {k \in DOMAIN features_df : k[2] \in LatestDates(DOMAIN features_df, holdout)}

\* the rows of a table hold every test record exactly once and nothing else
OnePerTestRecord(rows) ==
    /\ \A i \in 1 .. Len(rows) : <<rows[i].Store, rows[i].Date>> \in TestKeys
    /\ \A k \in TestKeys :
          Cardinality({i \in 1 .. Len(rows) : <<rows[i].Store, rows[i].Date>> = k}) = 1

\* C27: one forecast row and one comparison row per test record. The forecast
\* table holds exactly one row for every test record, under the record's
\* (Store, Date) key; the comparison holds exactly one row for every test
\* record, and in every one of them the actual and the forecast hours are
\* present.
C27_OneRowPerTestRecord ==
    /\ forecasts_df.pc = "saved" => OnePerTestRecord(forecasts_df.rows)
    /\ hours.pc = "compared"
       => /\ OnePerTestRecord(hours.comparison)
          /\ \A i \in 1 .. Len(hours.comparison) :
                /\ ~IsNaN(hours.comparison[i].hours_actual)
                /\ ~IsNaN(hours.comparison[i].hours_forecast)

\* C27 witness: the merges of the top-level script ran on a table in which
\* store 1 has also train records; the two test records give two comparison
\* rows
C27_Witness ==
    /\ hours.pc = "compared" /\ impl = "top" /\ holdout = 1
    /\ DOMAIN features_df = {<<1, 1>>, <<1, 2>>, <<1, 3>>, <<2, 2>>, <<2, 3>>}
    /\ Len(hours.hours_actual) = 5
    /\ Len(hours.comparison) = 2
    /\ hours.comparison[1].Store = 1 /\ hours.comparison[1].Date = 3
    /\ hours.comparison[2].Store = 2 /\ hours.comparison[2].Date = 3


(***************************************************************************)
(* secure-runpod-chat: RunPodManager, the lifecycle of the GPU pod.        *)
(* pods.live is the set of pods that exist at the provider, pods.made the  *)
(* number of pods created so far, pods.last the outcome of the last call.  *)
(* pod_id and pod_info are the manager's fields; None is NoPod.              *)
(***************************************************************************)
MaxPods == 3

\* self.pod_id = None: no pod recorded (pod ids start at 1)
NoPod == 0

\* runpod.stop_pod / runpod.terminate_pod either both return or one raises
ApiOutcomes == {"ok", "raises"}

\* __init__: no pod recorded
InitPod ==
    /\ pod_id = NoPod /\ pod_info = NoPod
    /\ pods = [live |-> {}, made |-> 0, last |-> "init"]
    /\ impl = Idle /\ stage = "runpod"
    /\ sales_df = Idle /\ store_sales = Idle /\ features_df = Idle
    /\ holdout = Idle /\ split = Idle /\ forecasts_df = Idle /\ conv = Idle
    /\ hours = Idle /\ calib_in = Idle /\ calib = Idle
    /\ metrics = Idle /\ orch = Idle

\* the fields and the provider after terminate_instance(arg) whose provider
\* calls end as api, starting from the fields id, info and the pods live
TerminateResult(id, info, live, arg, api) ==
    LET target == IF arg # NoPod THEN arg ELSE id
    IN  IF target = NoPod
        THEN [pod_id |-> id, pod_info |-> info, live |-> live, ret |-> FALSE]
        ELSE IF api = "ok"
             THEN [pod_id |-> IF target = id THEN NoPod ELSE id,
                   pod_info |-> IF target = id THEN NoPod ELSE info,
                   live |-> live \ {target}, ret |-> TRUE]
             ELSE [pod_id |-> id, pod_info |-> info, live |-> live, ret |-> FALSE]

\* cleanup(): terminate_instance() when a pod is recorded
CleanupResult(id, info, live, api) ==
    IF id # NoPod THEN TerminateResult(id, info, live, NoPod, api)
    ELSE [pod_id |-> id, pod_info |-> info, live |-> live, ret |-> FALSE]

\* create_instance: create_pod fails (raises or returns nothing), or the pod
\* is created and recorded and the wait returns its info or times out; every
\* exception runs cleanup() on the recorded pod and is raised again
create_instance ==
    /\ stage = "runpod" /\ pods.made < MaxPods
    /\ \E made \in {"created", "failed"}, wait \in {"ready", "timeout"}, api \in ApiOutcomes :
          LET n == pods.made + 1
          IN  IF made = "failed"
              THEN LET c == CleanupResult(pod_id, pod_info, pods.live, api)
                   IN  /\ pod_id' = c.pod_id /\ pod_info' = c.pod_info
                       /\ pods' = [live |-> c.live, made |-> pods.made, last |-> "create raised"]
              ELSE IF wait = "ready"
                   THEN /\ pod_id' = n /\ pod_info' = n
                        /\ pods' = [live |-> pods.live \cup {n}, made |-> n, last |-> "create returned"]
                   ELSE LET c == CleanupResult(n, pod_info, pods.live \cup {n}, api)
                        IN  /\ pod_id' = c.pod_id /\ pod_info' = c.pod_info
                            /\ pods' = [live |-> c.live, made |-> n, last |-> "create raised"]
    /\ UNCHANGED <<impl, stage, sales_df, store_sales, features_df, holdout, split,
                   forecasts_df, conv, hours, calib_in, calib, metrics, orch>>

\* terminate_instance(pod_id=None)
terminate_instance ==
    /\ stage = "runpod"
    /\ \E arg \in {NoPod} \cup (1 .. pods.made), api \in ApiOutcomes :
          LET t == TerminateResult(pod_id, pod_info, pods.live, arg, api)
          IN  /\ pod_id' = t.pod_id /\ pod_info' = t.pod_info
              /\ pods' = [live |-> t.live, made |-> pods.made,
                          last |-> IF t.ret THEN "terminate true" ELSE "terminate false"]
    /\ UNCHANGED <<impl, stage, sales_df, store_sales, features_df, holdout, split,
                   forecasts_df, conv, hours, calib_in, calib, metrics, orch>>

\* cleanup(), called by the client and at interpreter exit
cleanup ==
    /\ stage = "runpod"
    /\ \E api \in ApiOutcomes :
          LET c == CleanupResult(pod_id, pod_info, pods.live, api)
          IN  /\ pod_id' = c.pod_id /\ pod_info' = c.pod_info
              /\ pods' = [live |-> c.live, made |-> pods.made, last |-> "cleanup"]
    /\ UNCHANGED <<impl, stage, sales_df, store_sales, features_df, holdout, split,
                   forecasts_df, conv, hours, calib_in, calib, metrics, orch>>

NextPod == create_instance \/ terminate_instance \/ cleanup

SpecPod == InitPod /\ [][NextPod]_vars

\* C30: the manager never forgets a live pod. After any sequence of
\* create_instance, terminate_instance and cleanup calls, every pod that was
\* created and not successfully terminated is the pod recorded in pod_id, so
\* that the exit-time cleanup retries it; and the fields are cleared only by
\* a call that terminated the manager's own pod.
C30_NeverForgetsLivePod == \A p \in pods.live : pod_id = p

====
